---- MODULE Spec2Model ----
(***************************************************************************)
(* A model of the IndieAuth authorization server of django-blog            *)
(* (src/indieauth/views.py, src/indieauth/models.py): the client registry  *)
(* and its discovery fetch, the redirect authorizer, the identity          *)
(* resolver, the authorization endpoint, the token endpoint with its       *)
(* row-locking transaction, and token introspection.                       *)
(*                                                                         *)
(* Conventions.                                                            *)
(*  - A nullable column (used_at, revoked_at, last_fetched_at) holds {}   *)
(*    for NULL and {t} for the timestamp t.                                *)
(*  - Time is counted in minutes.                                          *)
(*  - A URL string is the record of the parts it is written with; the     *)
(*    empty string is EmptyUrl.  urlparse is the operator that reads the   *)
(*    parts the way urllib does (it lower-cases the scheme, keeps the      *)
(*    netloc as written).  Two URL strings are equal iff their records     *)
(*    are.  A path is the sequence of its characters.                      *)
(*  - SHA-256 is a tagging of its argument: injective on the model's       *)
(*    values, and never the identity.                                      *)
(***************************************************************************)
EXTENDS Integers, Sequences, FiniteSets, TLC

VARIABLES
    now,        \* timezone.now(), in minutes
    clients,    \* IndieAuthClient rows, keyed by client_id
    codes,      \* IndieAuthAuthorizationCode rows, keyed by code_hash
    tokens,     \* IndieAuthAccessToken rows, keyed by token_hash
    consents,   \* IndieAuthConsent rows: a set of <<user, client_id, scope>> |-> last_used_at
    minted,     \* history: <<code_hash, token_hash>> of every committed exchange
    ex,         \* the token-endpoint requests in flight, one per worker
    lock,       \* row locks on codes: code_hash |-> the worker holding it
    ar,         \* the authorization endpoint's last request and response
    ir,         \* the introspection endpoint's last request and response
    rs,         \* the last bearer-token checks of userinfo and of the Micropub endpoint
    rw,         \* the requests resolving a client: position and the row held in memory
    nz,         \* a URL given to _normalize_url, and what came of it
    ra,         \* the redirect authorizer's last arguments and verdict
    net,        \* the web as discovery sees it: what each host answers
    disc        \* the last discovery fetch: its client_id, hosts contacted, outcome

vars == <<now, clients, codes, tokens, consents, minted, ex, lock, ar, ir, rs, nz, rw, ra, net, disc>>

(***************************************************************************)
(* Program constants (minutes).                                            *)
(***************************************************************************)
AUTH_CODE_TTL == 10
ACCESS_TOKEN_TTL == 43200
CLIENT_CACHE_TTL == 720

(***************************************************************************)
(* Bounds of the model.                                                    *)
(***************************************************************************)
MaxPathLen == 4      \* longest redirect_uri path explored by the authorizer
MaxClock == 0        \* the clock ticks minute by minute up to here, then jumps to deadlines
MaxHops == 2         \* redirect hops a discovery fetch follows before urllib gives up

Null == {}
Some(v) == {v}
IsNull(x) == x = {}
Val(x) == CHOOSE v \in x : TRUE

(***************************************************************************)
(* Strings and URLs.                                                       *)
(***************************************************************************)
PathChars == {"/", "a", "-"}

StartsWith(s, p) == Len(p) <= Len(s) /\ SubSeq(s, 1, Len(p)) = p

EndsWith(s, ch) == Len(s) > 0 /\ s[Len(s)] = ch

RECURSIVE RStrip(_, _)
RStrip(s, ch) ==
    IF Len(s) > 0 /\ s[Len(s)] = ch THEN RStrip(SubSeq(s, 1, Len(s) - 1), ch) ELSE s

Lower(s) ==
    CASE s = "HTTPS" -> "https"
      [] s = "HTTP" -> "http"
      [] s = "LOCALHOST" -> "localhost"
      [] OTHER -> s

EmptyUrl ==
    [scheme |-> "", userinfo |-> "", host |-> "", port |-> "", path |-> <<>>,
     query |-> "", fragment |-> ""]

Url(scheme, host, path) ==
    [scheme |-> scheme, userinfo |-> "", host |-> host, port |-> "", path |-> path,
     query |-> "", fragment |-> ""]

\* urllib.parse.urlparse: scheme lower-cased; a string written without a scheme has
\* no netloc (its host text is read as path, or as scheme when a ":port" follows).
urlparse(u) ==
    [scheme   |-> IF u.scheme = "" /\ u.port # "" THEN Lower(u.host) ELSE Lower(u.scheme),
     netloc   |-> IF u.scheme = "" THEN <<"", "", "">> ELSE <<u.userinfo, u.host, u.port>>,
     hostname |-> IF u.scheme = "" THEN "" ELSE Lower(u.host),
     userinfo |-> IF u.scheme = "" THEN "" ELSE u.userinfo,
     port     |-> IF u.scheme = "" THEN "" ELSE u.port,
     path     |-> u.path,
     query    |-> u.query,
     fragment |-> u.fragment]

NoNetloc == <<"", "", "">>

(***************************************************************************)
(* The redirect authorizer.  client is {} (None) or {row}.                 *)
(***************************************************************************)
redirect_uri_allowed_no_boundary(client_id, redirect_uri, client) ==
    LET parsed == urlparse(redirect_uri)
        client_parsed == urlparse(client_id)
    IN  IF redirect_uri = EmptyUrl THEN FALSE
        ELSE IF parsed.scheme \notin {"http", "https"} \/ parsed.netloc = NoNetloc THEN FALSE
        ELSE IF parsed.fragment # "" THEN FALSE
        ELSE IF client # {} /\ Val(client).redirect_uris # {}
             THEN redirect_uri \in Val(client).redirect_uris
        ELSE IF client_parsed.scheme # parsed.scheme \/ client_parsed.netloc # parsed.netloc
             THEN FALSE
        ELSE IF client_parsed.path # <<>>
             THEN StartsWith(parsed.path, client_parsed.path)
        ELSE TRUE

redirect_uri_allowed_with_fallback(client_id, redirect_uri, client) ==
    LET parsed == urlparse(redirect_uri)
        client_parsed == urlparse(client_id)
    IN  IF redirect_uri = EmptyUrl THEN FALSE
        ELSE IF parsed.scheme \notin {"http", "https"} \/ parsed.netloc = NoNetloc THEN FALSE
        ELSE IF parsed.fragment # "" THEN FALSE
        ELSE IF client # {} /\ Val(client).redirect_uris # {}
                /\ redirect_uri \in Val(client).redirect_uris
             THEN TRUE
        ELSE IF client_parsed.scheme # parsed.scheme \/ client_parsed.netloc # parsed.netloc
             THEN FALSE
        ELSE IF client_parsed.path # <<>>
             THEN IF ~StartsWith(parsed.path, client_parsed.path) THEN FALSE
                  ELSE IF parsed.path # client_parsed.path
                       THEN StartsWith(parsed.path, RStrip(client_parsed.path, "/") \o <<"/">>)
                  ELSE TRUE
        ELSE TRUE

redirect_uri_allowed(client_id, redirect_uri, client) ==
    LET parsed == urlparse(redirect_uri)
        client_parsed == urlparse(client_id)
    IN  IF redirect_uri = EmptyUrl THEN FALSE
        ELSE IF parsed.scheme \notin {"http", "https"} \/ parsed.netloc = NoNetloc THEN FALSE
        ELSE IF parsed.fragment # "" THEN FALSE
        ELSE IF client # {} /\ Val(client).redirect_uris # {}
             THEN redirect_uri \in Val(client).redirect_uris
        ELSE IF client_parsed.scheme # parsed.scheme \/ client_parsed.netloc # parsed.netloc
             THEN FALSE
        ELSE IF client_parsed.path # <<>>
             THEN IF ~StartsWith(parsed.path, client_parsed.path) THEN FALSE
                  ELSE IF parsed.path # client_parsed.path
                       THEN StartsWith(parsed.path, RStrip(client_parsed.path, "/") \o <<"/">>)
                  ELSE TRUE
        ELSE TRUE

(***************************************************************************)
(* Name resolution and the public-address check.  The resolver is the      *)
(* environment: each host of the model resolves to a fixed set of address  *)
(* classes (ipaddress's is_private, is_loopback, ...; "global" is none of  *)
(* them); no address means getaddrinfo failed.                             *)
(***************************************************************************)
Hosts == {"client.example", "cdn.example", "intra.example", "mixed.example",
          "nx.example", "localhost"}

resolve_host_ips(hostname) ==
    CASE hostname = "client.example" -> {"global"}
      [] hostname = "cdn.example"    -> {"global"}
      [] hostname = "intra.example"  -> {"private"}
      [] hostname = "mixed.example"  -> {"global", "link_local"}
      [] hostname = "localhost"      -> {"loopback"}
      [] OTHER                       -> {}

is_localhost(hostname) ==
    IF hostname = "" THEN FALSE
    ELSE Lower(hostname) \in {"localhost", "127.0.0.1", "::1"}

is_public_host(hostname) ==
    IF hostname = "" THEN FALSE
    ELSE IF is_localhost(hostname) THEN FALSE
    ELSE IF resolve_host_ips(hostname) = {} THEN FALSE
    ELSE \A ip \in resolve_host_ips(hostname) :
            ~(ip \in {"private", "loopback", "link_local", "reserved", "multicast"})

(***************************************************************************)
(* The discovery fetch.  net[h] is what host h answers to a GET:           *)
(*   [kind |-> "doc", ...]      a final response,                          *)
(*   [kind |-> "redirect", to]  a 3xx with Location to (EmptyUrl: none),   *)
(*   [kind |-> "error"]         a network or HTTP error.                   *)
(* A fetch yields [ok, metadata | error, sent, read]: sent lists, in order, *)
(* the hosts a request went to, read is the number of bytes taken from the *)
(* body of the final response.                                             *)
(***************************************************************************)
MAX_METADATA_BYTES == 1000000

urljoin(base, ref) ==
    IF ref.scheme # "" THEN ref
    ELSE IF ref.host # "" THEN [ref EXCEPT !.scheme = Lower(base.scheme)]
    ELSE [base EXCEPT !.scheme = Lower(base.scheme),
                      !.path = IF ref.path = <<>> THEN base.path ELSE ref.path,
                      !.query = ref.query, !.fragment = ref.fragment]

clean_redirects(client_id, uris) ==
    {urljoin(client_id, uri) : uri \in
        {u \in uris :
            /\ u # EmptyUrl
            /\ urlparse(urljoin(client_id, u)).scheme \in {"http", "https"}
            /\ urlparse(urljoin(client_id, u)).netloc # NoNetloc
            /\ urlparse(urljoin(client_id, u)).fragment = ""}}

parse_metadata(client_id, doc) ==
    LET body_read == doc.content_type \in {"json", "html"}
        raw == doc.link_uris \cup (IF body_read THEN doc.body_uris ELSE {})
    IN  [redirect_uris |-> clean_redirects(client_id, raw),
         client_name   |-> IF body_read THEN doc.name ELSE "",
         logo_url      |-> IF body_read /\ doc.logo # "" THEN doc.logo ELSE doc.link_logo]

FetchError(msg, sent) == [ok |-> FALSE, error |-> msg, sent |-> sent, read |-> 0]

\* response.read(n): the first n bytes of the body, all of it if it is shorter.
response_read(answer, n) == IF answer.size < n THEN answer.size ELSE n

too_large_at_cap(body_len) == body_len >= MAX_METADATA_BYTES

\* len(body_bytes) > MAX_METADATA_BYTES
too_large(body_len) == body_len > MAX_METADATA_BYTES

RECURSIVE open_url(_, _, _, _)
open_url(client_id, url, hops, sent) ==
    LET answer == net[urlparse(url).hostname]
        sent2 == Append(sent, urlparse(url).hostname)
        body_bytes == response_read(answer, MAX_METADATA_BYTES + 1)
    IN  CASE answer.kind = "error" -> FetchError("URLError", sent2)
          [] answer.kind = "redirect" ->
                IF answer.to = EmptyUrl THEN FetchError("HTTPError", sent2)
                ELSE IF ~is_public_host(urlparse(answer.to).hostname)
                     THEN FetchError("Redirect target is not allowed", sent2)
                ELSE IF hops >= MaxHops THEN FetchError("HTTPError", sent2)
                ELSE open_url(client_id, answer.to, hops + 1, sent2)
          [] OTHER ->
                IF too_large(body_bytes)
                THEN [FetchError("Client metadata response too large", sent2)
                        EXCEPT !.read = body_bytes]
                ELSE [ok |-> TRUE, metadata |-> parse_metadata(client_id, answer),
                      sent |-> sent2, read |-> body_bytes]

fetch_client_metadata_unguarded(client_id) ==
    open_url(client_id, client_id, 0, <<>>)

fetch_client_metadata(client_id) ==
    IF ~is_public_host(urlparse(client_id).hostname)
    THEN FetchError("Client host is not allowed", <<>>)
    ELSE open_url(client_id, client_id, 0, <<>>)

(***************************************************************************)
(* The client registry.  get_or_fetch_client yields                        *)
(*   [client  |-> {} (None) or {the row returned},                         *)
(*    store   |-> the IndieAuthClient table afterwards,                    *)
(*    fetched |-> whether a discovery fetch ran, fetch |-> its outcome].   *)
(***************************************************************************)
NewClient ==
    [name |-> "", logo_url |-> "", redirect_uris |-> {}, last_fetched_at |-> Null,
     fetch_error |-> ""]

NoFetch == [ok |-> FALSE, error |-> "", sent |-> <<>>, read |-> 0]

Put(f, k, v) == [x \in DOMAIN f \cup {k} |-> IF x = k THEN v ELSE f[x]]

refreshed_merging(client, metadata) ==
    [client EXCEPT
        !.redirect_uris = @ \cup metadata.redirect_uris,
        !.name = IF metadata.client_name # "" THEN metadata.client_name ELSE @,
        !.logo_url = IF metadata.logo_url # "" THEN metadata.logo_url ELSE @,
        !.fetch_error = "",
        !.last_fetched_at = Some(now)]

\* The row saved after a successful fetch: the discovered redirect_uris; the
\* discovered name and logo, or the previous ones when those are empty.
refreshed(client, metadata) ==
    [client EXCEPT
        !.redirect_uris = metadata.redirect_uris,
        !.name = IF metadata.client_name # "" THEN metadata.client_name ELSE @,
        !.logo_url = IF metadata.logo_url # "" THEN metadata.logo_url ELSE @,
        !.fetch_error = "",
        !.last_fetched_at = Some(now)]

failed_dropping_cache(client, error) ==
    [client EXCEPT !.redirect_uris = {}, !.fetch_error = error,
                   !.last_fetched_at = Some(now)]

\* The row saved after a failed fetch: only fetch_error and last_fetched_at change.
failed(client, error) ==
    [client EXCEPT !.fetch_error = error, !.last_fetched_at = Some(now)]

refresh_needed_from_ttl(client) ==
    \/ IsNull(client.last_fetched_at)
    \/ now - Val(client.last_fetched_at) >= CLIENT_CACHE_TTL

\* not client.last_fetched_at or now - client.last_fetched_at > CLIENT_CACHE_TTL
refresh_needed(client) ==
    \/ IsNull(client.last_fetched_at)
    \/ now - Val(client.last_fetched_at) > CLIENT_CACHE_TTL

get_or_fetch_client(client_id) ==
    LET parsed == urlparse(client_id)
        client == IF client_id \in DOMAIN clients THEN clients[client_id] ELSE NewClient
        created == Put(clients, client_id, client)
        cached == client.redirect_uris # {} /\ client.name # ""
        f == fetch_client_metadata(client_id)
        fetchedRow == IF f.ok THEN refreshed(client, f.metadata) ELSE failed(client, f.error)
        stamped == [client EXCEPT !.last_fetched_at = Some(now)]
    IN  IF client_id = EmptyUrl
        THEN [client |-> {}, store |-> clients, fetched |-> FALSE, fetch |-> NoFetch]
        ELSE IF parsed.scheme \notin {"http", "https"} \/ parsed.netloc = NoNetloc
        THEN [client |-> {}, store |-> clients, fetched |-> FALSE, fetch |-> NoFetch]
        ELSE IF parsed.fragment # ""
        THEN [client |-> {}, store |-> clients, fetched |-> FALSE, fetch |-> NoFetch]
        ELSE IF cached /\ ~refresh_needed(client)
        THEN [client |-> {client}, store |-> created, fetched |-> FALSE, fetch |-> NoFetch]
        ELSE IF cached /\ IsNull(client.last_fetched_at)
        THEN [client |-> {stamped}, store |-> Put(clients, client_id, stamped),
              fetched |-> FALSE, fetch |-> NoFetch]
        ELSE IF refresh_needed(client) \/ client.redirect_uris = {}
        THEN [client |-> {fetchedRow}, store |-> Put(clients, client_id, fetchedRow),
              fetched |-> TRUE, fetch |-> f]
        ELSE [client |-> {client}, store |-> created, fetched |-> FALSE, fetch |-> NoFetch]

NoDisc == [client_id |-> EmptyUrl, ok |-> FALSE, sent |-> <<>>, metadata |-> {}, read |-> 0]

\* What the last authorization request did for discovery: the fetch it ran, or
\* NoDisc when it ran none.
Discovered(r, client_id) ==
    IF r.fetched
    THEN [client_id |-> client_id, ok |-> r.fetch.ok, sent |-> r.fetch.sent,
          metadata |-> IF r.fetch.ok THEN {r.fetch.metadata} ELSE {}, read |-> r.fetch.read]
    ELSE NoDisc

(***************************************************************************)
(* The client registry under concurrent requests.  Each request process    *)
(* runs _get_or_fetch_client statement by statement: get_or_create reads   *)
(* (and, if need be, inserts) the row and keeps a copy in memory; the      *)
(* fetch takes place outside any transaction; save() writes every column   *)
(* of the copy, save(update_fields) only last_fetched_at.                  *)
(*   rw[w] = [pc, client_id, client (the copy in memory)]                  *)
(***************************************************************************)
Workers == {"w1", "w2"}

NoRw == [w \in Workers |-> [pc |-> "idle", client_id |-> EmptyUrl, client |-> NewClient]]

\* client, _created = IndieAuthClient.objects.get_or_create(client_id=client_id),
\* and the decision between the cached row, the stamp and the fetch.
resolve_read(w, client_id) ==
    LET client == IF client_id \in DOMAIN clients THEN clients[client_id] ELSE NewClient
        cached == client.redirect_uris # {} /\ client.name # ""
        next == IF cached /\ ~refresh_needed(client) THEN "done"
                ELSE IF cached /\ IsNull(client.last_fetched_at) THEN "stamp"
                ELSE IF refresh_needed(client) \/ client.redirect_uris = {} THEN "fetch"
                ELSE "done"
    IN  /\ rw[w].pc = "idle"
        /\ clients' = Put(clients, client_id, client)
        /\ rw' = [rw EXCEPT ![w] = [pc |-> next, client_id |-> client_id, client |-> client]]
        /\ UNCHANGED <<now, codes, tokens, consents, minted, ex, lock, ar, ir, rs, nz, ra, net, disc>>

\* client.last_fetched_at = now; client.save(update_fields=["last_fetched_at"])
resolve_stamp(w) ==
    /\ rw[w].pc = "stamp"
    /\ clients' = [clients EXCEPT ![rw[w].client_id].last_fetched_at = Some(now)]
    /\ rw' = [rw EXCEPT ![w].pc = "done", ![w].client.last_fetched_at = Some(now)]
    /\ UNCHANGED <<now, codes, tokens, consents, minted, ex, lock, ar, ir, rs, nz, ra, net, disc>>

\* The try block: the fetch, and the assignments to the copy in memory.
resolve_fetch(w) ==
    LET f == fetch_client_metadata(rw[w].client_id)
    IN  /\ rw[w].pc = "fetch"
        /\ rw' = [rw EXCEPT ![w].pc = "save",
                            ![w].client = IF f.ok THEN refreshed(@, f.metadata)
                                          ELSE failed(@, f.error)]
        /\ UNCHANGED <<now, clients, codes, tokens, consents, minted, ex, lock, ar, ir, rs, nz, ra, net, disc>>

\* client.save(): an UPDATE of every column with the values of the copy.
resolve_save(w) ==
    /\ rw[w].pc = "save"
    /\ clients' = Put(clients, rw[w].client_id, rw[w].client)
    /\ rw' = [rw EXCEPT ![w].pc = "done"]
    /\ UNCHANGED <<now, codes, tokens, consents, minted, ex, lock, ar, ir, rs, nz, ra, net, disc>>

\* return client; the process takes the next request.
resolve_return(w) ==
    /\ rw[w].pc = "done"
    /\ rw' = [rw EXCEPT ![w] = NoRw[w]]
    /\ UNCHANGED <<now, clients, codes, tokens, consents, minted, ex, lock, ar, ir, rs, nz, ra, net, disc>>

(***************************************************************************)
(* The identity resolver.                                                  *)
(***************************************************************************)
settings_DEBUG == FALSE

\* request.build_absolute_uri("/") and the URLs of the site author's first h-card.
ServerBase == Url("https", "blog.example", <<"/">>)

ProfileUrls == {Url("https", "me.example", <<>>)}

\* str.endswith("/") of the URL string as written (no fragment present).
ValueEndsWithSlash(value) ==
    IF value.query # "" THEN value.query = "q/"
    ELSE EndsWith(value.path, "/")

\* {} is None; otherwise {the normalized URL string}.
\* int(port) of the netloc: None without digits, a ValueError above 65535.
PortOutOfRange(port) == port = "99999"

PortIsZero(port) == port = "0"

\* _normalize_url raises instead of returning: parsed.port is read, after the
\* scheme, netloc, credentials and fragment tests passed, and cannot be converted.
normalize_url_raises(value) ==
    LET first == urlparse(value)
        parsed == IF first.scheme = "" THEN urlparse([value EXCEPT !.scheme = "https"])
                  ELSE first
    IN  /\ value # EmptyUrl
        /\ parsed.scheme \in {"http", "https"}
        /\ parsed.netloc # NoNetloc
        /\ parsed.userinfo = ""
        /\ parsed.fragment = ""
        /\ PortOutOfRange(parsed.port)

\* _normalize_url under settings.DEBUG = debug: {} for None.  `if parsed.port` is
\* false without a port and for port 0.
normalize_url_in(value, debug) ==
    LET first == urlparse(value)
        parsed == IF first.scheme = "" THEN urlparse([value EXCEPT !.scheme = "https"])
                  ELSE first
        path == IF parsed.path = <<>> THEN <<"/">> ELSE parsed.path
        path2 == IF ValueEndsWithSlash(value) /\ ~EndsWith(path, "/")
                 THEN Append(path, "/") ELSE path
    IN  IF value = EmptyUrl THEN {}
        ELSE IF parsed.scheme \notin {"http", "https"} \/ parsed.netloc = NoNetloc THEN {}
        ELSE IF parsed.userinfo # "" THEN {}
        ELSE IF parsed.fragment # "" THEN {}
        ELSE IF /\ parsed.port # ""
                /\ ~PortIsZero(parsed.port)
                /\ ~(is_localhost(parsed.hostname) /\ debug)
        THEN {}
        ELSE {[scheme |-> parsed.scheme, userinfo |-> "", host |-> value.host,
               port |-> parsed.port, path |-> path2, query |-> "", fragment |-> ""]}

normalize_url(value) == normalize_url_in(value, settings_DEBUG)

\* What a call of _normalize_url comes to: a URL, None, or a ValueError.
Outcome(value, debug) ==
    IF normalize_url_raises(value) THEN [kind |-> "raise", url |-> EmptyUrl]
    ELSE IF normalize_url_in(value, debug) = {} THEN [kind |-> "none", url |-> EmptyUrl]
    ELSE [kind |-> "url", url |-> Val(normalize_url_in(value, debug))]

NoOutcome == [kind |-> "", url |-> EmptyUrl]

NoNz == [value |-> EmptyUrl, debug |-> FALSE, done |-> FALSE, result |-> NoOutcome,
         again |-> NoOutcome]

\* _normalize_url(value), and _normalize_url of what it returned.
normalize ==
    /\ ~nz.done
    /\ nz' = [nz EXCEPT !.done = TRUE,
                        !.result = Outcome(nz.value, nz.debug),
                        !.again = IF Outcome(nz.value, nz.debug).kind = "url"
                                  THEN Outcome(Outcome(nz.value, nz.debug).url, nz.debug)
                                  ELSE NoOutcome]
    /\ UNCHANGED <<now, clients, codes, tokens, consents, minted, ex, lock, ar, ir, rs, rw, ra, net, disc>>

allowed_me_urls ==
    normalize_url(ServerBase) \cup UNION {normalize_url(u) : u \in ProfileUrls}

is_allowed_me_any_url(me_url) == normalize_url(me_url) # {}

is_allowed_me(me_url) ==
    LET normalized == normalize_url(me_url)
    IN  IF normalized = {} THEN FALSE
        ELSE Val(normalized) \in allowed_me_urls

\* " ".join(_normalize_scopes(scope)): a scope string is the sequence of the items
\* its whitespace separates, "" standing for an item that is only whitespace.
RECURSIVE normalize_scopes(_)
normalize_scopes(scope_value) ==
    IF scope_value = <<>> THEN <<>>
    ELSE IF Head(scope_value) = "" THEN normalize_scopes(Tail(scope_value))
    ELSE <<Head(scope_value)>> \o normalize_scopes(Tail(scope_value))

(***************************************************************************)
(* Hashing.                                                                *)
(***************************************************************************)
hash_token_plain(value) == value

\* hashlib.sha256(value.encode("utf-8")).hexdigest()

hash_token(value) == <<"sha256", value>>

base64url_sha256(value) == <<"S256", value>>

\* The text "S256"; any other method text is another string.
S256 == "S256"

(***************************************************************************)
(* The authorization endpoint.  A request is                               *)
(*   [method, user ("" when not authenticated), client_id, redirect_uri,   *)
(*    me, scope, state, response_type, code_challenge,                     *)
(*    code_challenge_method, prompt, decision, remember]                   *)
(* and a response [status, kind, location, code, error, state, iss]:       *)
(*   kind "error"    the locally rendered error page,                      *)
(*   kind "consent"  the consent page,                                     *)
(*   kind "login"    a redirect to the login page,                         *)
(*   kind "redirect" a redirect to location (the request's redirect_uri)   *)
(*                   whose query carries code or error, and state.         *)
(***************************************************************************)
\* secrets.token_urlsafe(32) never repeats a value: the values it returns, in the
\* order it returns them.
RawCodeSeq == <<"c1", "c2">>

RawTokenSeq == <<"t1", "t2", "t3">>

RawCodes == {RawCodeSeq[i] : i \in DOMAIN RawCodeSeq}

RawTokens == {RawTokenSeq[i] : i \in DOMAIN RawTokenSeq}

\* The next value of seq outside used, as a set: {} when the model has run out.
Fresh(seq, used) ==
    LET left == {i \in DOMAIN seq : seq[i] \notin used}
    IN  IF left = {} THEN {} ELSE {seq[CHOOSE i \in left : \A j \in left : i <= j]}

\* _issuer: request.build_absolute_uri("/") without its trailing slash.
issuer == [ServerBase EXCEPT !.path = RStrip(@, "/")]

render_error(status) ==
    [status |-> status, kind |-> "error", location |-> EmptyUrl, code |-> "",
     error |-> "", state |-> "", iss |-> EmptyUrl]

render_consent ==
    [status |-> 200, kind |-> "consent", location |-> EmptyUrl, code |-> "",
     error |-> "", state |-> "", iss |-> EmptyUrl]

redirect_login ==
    [status |-> 302, kind |-> "login", location |-> EmptyUrl, code |-> "",
     error |-> "", state |-> "", iss |-> EmptyUrl]

\* redirect(_redirect_with_params(base_url, params))
redirect_with_params(base_url, code, error, state) ==
    [status |-> 302, kind |-> "redirect", location |-> base_url, code |-> code,
     error |-> error, state |-> state, iss |-> EmptyUrl]

NewCode(req, me, scope_value) ==
    [code_challenge |-> req.code_challenge,
     code_challenge_method |-> req.code_challenge_method,
     client_id |-> req.client_id, redirect_uri |-> req.redirect_uri, me |-> me,
     scope |-> scope_value, user |-> req.user, created_at |-> now,
     expires_at |-> now + AUTH_CODE_TTL, used_at |-> Null]

\* _issue_authorization_code: a fresh random code, its hash stored, the raw value
\* sent once in the redirect.
issue_authorization_code(req, me, scope_value) ==
    \E code \in Fresh(RawCodeSeq, {c \in RawCodes : hash_token(c) \in DOMAIN codes}) :
        /\ codes' = Put(codes, hash_token(code), NewCode(req, me, scope_value))
        /\ ar' = [req |-> req,
                  resp |-> [redirect_with_params(req.redirect_uri, code, "", req.state)
                                EXCEPT !.iss = issuer]]

Answer(req, resp) == ar' = [req |-> req, resp |-> resp]

ConsentKeyIgnoringScope(req) == <<req.user, req.client_id, <<>>>>

ConsentKey(req) == <<req.user, req.client_id, normalize_scopes(req.scope)>>

denied_explicitly(req) == req.decision = "deny"

\* decision != "approve"
denied(req) == req.decision # "approve"

\* IndieAuthConsent.objects.update_or_create(user, client_id, scope,
\*                                          defaults={"last_used_at": now})
update_or_create_consent(req) == Put(consents, ConsentKey(req), Some(now))

pkce_invalid_challenge_only(req) == req.code_challenge = <<>>

\* not code_challenge or code_challenge_method != "S256"
pkce_invalid(req) == req.code_challenge = <<>> \/ req.code_challenge_method # S256

authorize_get(req) ==
    LET r == get_or_fetch_client(req.client_id)
        normalized_me == normalize_url(req.me)
        scope_value == normalize_scopes(req.scope)
    IN  /\ req.method = "GET"
        /\ UNCHANGED <<now, tokens, minted, ex, lock, ir, rs, nz, rw, ra, net>>
        /\ IF req.response_type # "code"
           THEN /\ Answer(req, render_error(400))
                /\ disc' = NoDisc
                /\ UNCHANGED <<clients, codes, consents>>
           ELSE
           /\ clients' = r.store
           /\ disc' = Discovered(r, req.client_id)
           /\ IF r.client = {}
              THEN Answer(req, render_error(400)) /\ UNCHANGED <<codes, consents>>
              ELSE IF ~redirect_uri_allowed(req.client_id, req.redirect_uri, r.client)
              THEN Answer(req, render_error(400)) /\ UNCHANGED <<codes, consents>>
              ELSE IF normalize_url_raises(req.me)
              THEN Answer(req, render_error(500)) /\ UNCHANGED <<codes, consents>>
              ELSE IF normalized_me = {} \/ ~is_allowed_me(Val(normalized_me))
              THEN Answer(req, render_error(400)) /\ UNCHANGED <<codes, consents>>
              ELSE IF pkce_invalid(req)
              THEN Answer(req, render_error(400)) /\ UNCHANGED <<codes, consents>>
              ELSE IF req.user = ""
              THEN Answer(req, redirect_login) /\ UNCHANGED <<codes, consents>>
              ELSE IF req.prompt # "consent" /\ ConsentKey(req) \in DOMAIN consents
              THEN /\ consents' = [consents EXCEPT ![ConsentKey(req)] = Some(now)]
                   /\ issue_authorization_code(req, Val(normalized_me), scope_value)
              ELSE Answer(req, render_consent) /\ UNCHANGED <<codes, consents>>

authorize_post_unvalidated(req) ==
    LET r == get_or_fetch_client(req.client_id)
        normalized_me == normalize_url(req.me)
        scope_value == normalize_scopes(req.scope)
    IN  /\ req.method = "POST"
        /\ UNCHANGED <<now, tokens, minted, ex, lock, ir, rs, nz, rw, ra, net>>
        /\ IF req.user = ""
           THEN /\ Answer(req, redirect_login)
                /\ disc' = NoDisc
                /\ UNCHANGED <<clients, codes, consents>>
           ELSE
           /\ clients' = r.store
           /\ disc' = Discovered(r, req.client_id)
           /\ IF r.client = {}
              THEN Answer(req, render_error(400)) /\ UNCHANGED <<codes, consents>>
              ELSE IF normalize_url_raises(req.me)
              THEN Answer(req, render_error(500)) /\ UNCHANGED <<codes, consents>>
              ELSE IF normalized_me = {} \/ ~is_allowed_me(Val(normalized_me))
              THEN Answer(req, render_error(400)) /\ UNCHANGED <<codes, consents>>
              ELSE IF pkce_invalid(req)
              THEN Answer(req, render_error(400)) /\ UNCHANGED <<codes, consents>>
              ELSE IF denied(req)
              THEN /\ Answer(req, redirect_with_params(req.redirect_uri, "",
                                                       "access_denied", req.state))
                   /\ UNCHANGED <<codes, consents>>
              ELSE /\ consents' = IF req.remember THEN update_or_create_consent(req)
                                  ELSE consents
                   /\ issue_authorization_code(req, Val(normalized_me), scope_value)

authorize_post(req) ==
    LET r == get_or_fetch_client(req.client_id)
        normalized_me == normalize_url(req.me)
        scope_value == normalize_scopes(req.scope)
    IN  /\ req.method = "POST"
        /\ UNCHANGED <<now, tokens, minted, ex, lock, ir, rs, nz, rw, ra, net>>
        /\ IF req.user = ""
           THEN /\ Answer(req, redirect_login)
                /\ disc' = NoDisc
                /\ UNCHANGED <<clients, codes, consents>>
           ELSE
           /\ clients' = r.store
           /\ disc' = Discovered(r, req.client_id)
           /\ IF r.client = {}
                 \/ ~redirect_uri_allowed(req.client_id, req.redirect_uri, r.client)
              THEN Answer(req, render_error(400)) /\ UNCHANGED <<codes, consents>>
              ELSE IF normalize_url_raises(req.me)
              THEN Answer(req, render_error(500)) /\ UNCHANGED <<codes, consents>>
              ELSE IF normalized_me = {} \/ ~is_allowed_me(Val(normalized_me))
              THEN Answer(req, render_error(400)) /\ UNCHANGED <<codes, consents>>
              ELSE IF pkce_invalid(req)
              THEN Answer(req, render_error(400)) /\ UNCHANGED <<codes, consents>>
              ELSE IF denied(req)
              THEN /\ Answer(req, redirect_with_params(req.redirect_uri, "",
                                                       "access_denied", req.state))
                   /\ UNCHANGED <<codes, consents>>
              ELSE /\ consents' = IF req.remember THEN update_or_create_consent(req)
                                  ELSE consents
                   /\ issue_authorization_code(req, Val(normalized_me), scope_value)

(***************************************************************************)
(* The token endpoint.  A request is                                       *)
(*   [method, action, token, grant_type, code, client_id, redirect_uri,    *)
(*    code_verifier]                                                       *)
(* ("" for a parameter that is absent) and a response                      *)
(*   [status, body, error, access_token, me, scope, expires_in]            *)
(* with body one of "text" (HttpResponseBadRequest), "error", "revoked",   *)
(* "not_revoked", "token".                                                 *)
(*                                                                         *)
(* A worker runs one request at a time.  The exchange branch runs inside   *)
(* transaction.atomic(): its writes are held back in the worker and reach  *)
(* the tables together when the block is left; select_for_update() takes   *)
(* the lock of the row it returns and waits while another transaction      *)
(* holds it, after which the filter is evaluated on the committed row.     *)
(* pc: idle -> select -> check -> consume -> mint -> commit -> done.       *)
(* Two fields only record what happened: late (the request arrived when    *)
(* the code it presents had reached its expiry) and sel (what the select   *)
(* met: "absent", "used" or "found").                                      *)
(***************************************************************************)
Procs == {"p1", "p2"}

NoTokenReq ==
    [method |-> "", action |-> "", token |-> "", access_token |-> "", grant_type |-> "",
     code |-> "", client_id |-> EmptyUrl, redirect_uri |-> EmptyUrl, code_verifier |-> ""]

NoTokenResp ==
    [status |-> 0, body |-> "", error |-> "", access_token |-> "", me |-> EmptyUrl,
     scope |-> <<>>, expires_in |-> 0]

Idle ==
    [pc |-> "idle", req |-> NoTokenReq, late |-> FALSE, sel |-> "", auth_code |-> {},
     used_at |-> Null, access_token |-> "", created_at |-> 0, expires_at |-> 0,
     resp |-> NoTokenResp]

JsonError(error) == [NoTokenResp EXCEPT !.status = 400, !.body = "error", !.error = error]

ArrivesLate(req) ==
    /\ hash_token(req.code) \in DOMAIN codes
    /\ now >= codes[hash_token(req.code)].expires_at

Finish(p, resp) == ex' = [ex EXCEPT ![p].pc = "done", ![p].resp = resp]

revoke_update_overwriting(token_hash) ==
    [t \in DOMAIN tokens |->
        IF t = token_hash THEN [tokens[t] EXCEPT !.revoked_at = Some(now)] ELSE tokens[t]]

\* QuerySet.filter(token_hash=..., revoked_at__isnull=True).update(revoked_at=now)
revoke_update(token_hash) ==
    [t \in DOMAIN tokens |->
        IF t = token_hash /\ IsNull(tokens[t].revoked_at)
        THEN [tokens[t] EXCEPT !.revoked_at = Some(now)]
        ELSE tokens[t]]

\* request.POST.get("token") or request.POST.get("access_token")
revoke_token_value(req) == IF req.token # "" THEN req.token ELSE req.access_token

revoke_response_by_rowcount(token_hash) ==
    [NoTokenResp EXCEPT !.status = 200,
                        !.body = IF token_hash \in DOMAIN tokens
                                    /\ IsNull(tokens[token_hash].revoked_at)
                                 THEN "revoked" ELSE "not_revoked"]

\* JsonResponse({"revoked": True}), whatever the update matched
revoke_response(token_hash) == [NoTokenResp EXCEPT !.status = 200, !.body = "revoked"]

\* grant_type and grant_type != "authorization_code"
unsupported_grant_type(req) == req.grant_type # "" /\ req.grant_type # "authorization_code"

missing_parameter_code_only(req) == req.code = ""

\* not code or not client_id or not redirect_uri or not code_verifier
missing_parameter(req) ==
    \/ req.code = ""
    \/ req.client_id = EmptyUrl
    \/ req.redirect_uri = EmptyUrl
    \/ req.code_verifier = ""

token_begin(p, req) ==
    /\ ex[p].pc = "idle"
    /\ UNCHANGED <<now, clients, codes, consents, minted, lock, ar, ir, rs, nz, rw, ra, net, disc>>
    /\ LET started == [ex[p] EXCEPT !.req = req, !.late = ArrivesLate(req)]
       IN  IF req.method # "POST"
           THEN /\ ex' = [ex EXCEPT ![p] = [started EXCEPT !.pc = "done",
                             !.resp = [NoTokenResp EXCEPT !.status = 400, !.body = "text"]]]
                /\ UNCHANGED tokens
           ELSE IF req.action = "revoke"
           THEN IF revoke_token_value(req) = ""
                THEN /\ ex' = [ex EXCEPT ![p] = [started EXCEPT !.pc = "done",
                             !.resp = [NoTokenResp EXCEPT !.status = 200,
                                                          !.body = "not_revoked"]]]
                     /\ UNCHANGED tokens
                ELSE /\ tokens' = revoke_update(hash_token(revoke_token_value(req)))
                     /\ ex' = [ex EXCEPT ![p] = [started EXCEPT !.pc = "done",
                             !.resp = revoke_response(hash_token(revoke_token_value(req)))]]
           ELSE IF unsupported_grant_type(req)
           THEN /\ ex' = [ex EXCEPT ![p] = [started EXCEPT !.pc = "done",
                             !.resp = JsonError("unsupported_grant_type")]]
                /\ UNCHANGED tokens
           ELSE IF missing_parameter(req)
           THEN /\ ex' = [ex EXCEPT ![p] = [started EXCEPT !.pc = "done",
                             !.resp = JsonError("invalid_request")]]
                /\ UNCHANGED tokens
           ELSE /\ ex' = [ex EXCEPT ![p] = [started EXCEPT !.pc = "select"]]
                /\ UNCHANGED tokens

\* select_for_update().filter(code_hash=code_hash, used_at__isnull=True).first()
token_select_unlocked(p) ==
    LET code_hash == hash_token(ex[p].req.code)
    IN  /\ ex[p].pc = "select"
        /\ UNCHANGED <<now, clients, codes, tokens, consents, minted, ar, ir, rs, nz, rw, ra, net, disc>>
        /\ IF code_hash \notin DOMAIN codes
           THEN /\ ex' = [ex EXCEPT ![p].pc = "done", ![p].sel = "absent",
                                    ![p].resp = JsonError("invalid_grant")]
                /\ UNCHANGED lock
           ELSE IF ~IsNull(codes[code_hash].used_at)
           THEN /\ ex' = [ex EXCEPT ![p].pc = "done", ![p].sel = "used",
                                    ![p].resp = JsonError("invalid_grant")]
                /\ UNCHANGED lock
           ELSE /\ lock' = Put(lock, code_hash, p)
                /\ ex' = [ex EXCEPT ![p].pc = "check", ![p].sel = "found",
                                    ![p].auth_code = {codes[code_hash]}]

token_select_unfiltered(p) ==
    LET code_hash == hash_token(ex[p].req.code)
    IN  /\ ex[p].pc = "select"
        /\ UNCHANGED <<now, clients, codes, tokens, consents, minted, ar, ir, rs, nz, rw, ra, net, disc>>
        /\ IF code_hash \notin DOMAIN codes
           THEN /\ ex' = [ex EXCEPT ![p].pc = "done", ![p].sel = "absent",
                                    ![p].resp = JsonError("invalid_grant")]
                /\ UNCHANGED lock
           ELSE /\ code_hash \notin DOMAIN lock
                /\ lock' = Put(lock, code_hash, p)
                /\ ex' = [ex EXCEPT ![p].pc = "check",
                                    ![p].sel = IF IsNull(codes[code_hash].used_at)
                                               THEN "found" ELSE "used",
                                    ![p].auth_code = {codes[code_hash]}]

token_select(p) ==
    LET code_hash == hash_token(ex[p].req.code)
    IN  /\ ex[p].pc = "select"
        /\ UNCHANGED <<now, clients, codes, tokens, consents, minted, ar, ir, rs, nz, rw, ra, net, disc>>
        /\ IF code_hash \notin DOMAIN codes
           THEN /\ ex' = [ex EXCEPT ![p].pc = "done", ![p].sel = "absent",
                                    ![p].resp = JsonError("invalid_grant")]
                /\ UNCHANGED lock
           ELSE IF ~IsNull(codes[code_hash].used_at)
           THEN /\ ex' = [ex EXCEPT ![p].pc = "done", ![p].sel = "used",
                                    ![p].resp = JsonError("invalid_grant")]
                /\ UNCHANGED lock
           ELSE /\ code_hash \notin DOMAIN lock
                /\ lock' = Put(lock, code_hash, p)
                /\ ex' = [ex EXCEPT ![p].pc = "check", ![p].sel = "found",
                                    ![p].auth_code = {codes[code_hash]}]

Unlock(p) == [h \in {k \in DOMAIN lock : lock[k] # p} |-> lock[h]]

\* The checks of the row; leaving the atomic block by return commits and unlocks.
ChecksPassExpiredAtOnly(auth_code, req) ==
    /\ ~(auth_code.expires_at < now)
    /\ ~(auth_code.client_id # req.client_id \/ auth_code.redirect_uri # req.redirect_uri)
    /\ ~(auth_code.code_challenge_method # S256)
    /\ ~(base64url_sha256(req.code_verifier) # auth_code.code_challenge)

ChecksPassNoPkce(auth_code, req) ==
    /\ ~(auth_code.expires_at <= now)
    /\ ~(auth_code.client_id # req.client_id \/ auth_code.redirect_uri # req.redirect_uri)
    /\ ~(auth_code.code_challenge_method # S256)

ChecksPass(auth_code, req) ==
    /\ ~(auth_code.expires_at <= now)
    /\ ~(auth_code.client_id # req.client_id \/ auth_code.redirect_uri # req.redirect_uri)
    /\ ~(auth_code.code_challenge_method # S256)
    /\ ~(base64url_sha256(req.code_verifier) # auth_code.code_challenge)

token_check_burning(p) ==
    /\ ex[p].pc = "check"
    /\ UNCHANGED <<now, clients, tokens, consents, minted, ar, ir, rs, nz, rw, ra, net, disc>>
    /\ IF ChecksPass(Val(ex[p].auth_code), ex[p].req)
       THEN /\ ex' = [ex EXCEPT ![p].pc = "consume"]
            /\ UNCHANGED <<lock, codes>>
       ELSE /\ Finish(p, JsonError("invalid_grant"))
            /\ codes' = [codes EXCEPT ![hash_token(ex[p].req.code)].used_at = Some(now)]
            /\ lock' = Unlock(p)

token_check(p) ==
    /\ ex[p].pc = "check"
    /\ UNCHANGED <<now, clients, codes, tokens, consents, minted, ar, ir, rs, nz, rw, ra, net, disc>>
    /\ IF ChecksPass(Val(ex[p].auth_code), ex[p].req)
       THEN /\ ex' = [ex EXCEPT ![p].pc = "consume"]
            /\ UNCHANGED lock
       ELSE /\ Finish(p, JsonError("invalid_grant"))
            /\ lock' = Unlock(p)

token_consume_autocommit(p) ==
    /\ ex[p].pc = "consume"
    /\ ex' = [ex EXCEPT ![p].pc = "mint", ![p].used_at = Some(now)]
    /\ codes' = [codes EXCEPT ![hash_token(ex[p].req.code)].used_at = Some(now)]
    /\ UNCHANGED <<now, clients, tokens, consents, minted, lock, ar, ir, rs, nz, rw, ra, net, disc>>

\* auth_code.used_at = timezone.now(); auth_code.save(update_fields=["used_at"])
token_consume(p) ==
    /\ ex[p].pc = "consume"
    /\ ex' = [ex EXCEPT ![p].pc = "mint", ![p].used_at = Some(now)]
    /\ UNCHANGED <<now, clients, codes, tokens, consents, minted, lock, ar, ir, rs, nz, rw, ra, net, disc>>

PendingTokens == {ex[q].access_token : q \in Procs}

\* access_token = secrets.token_urlsafe(32); IndieAuthAccessToken.objects.create(...)
token_mint(p) ==
    /\ ex[p].pc = "mint"
    /\ \E access_token \in Fresh(RawTokenSeq, PendingTokens \cup
                    {t \in RawTokens : hash_token(t) \in DOMAIN tokens}) :
          /\ ex' = [ex EXCEPT ![p].pc = "commit", ![p].access_token = access_token,
                              ![p].created_at = now,
                              ![p].expires_at = now + ACCESS_TOKEN_TTL]
    /\ UNCHANGED <<now, clients, codes, tokens, consents, minted, lock, ar, ir, rs, nz, rw, ra, net, disc>>

NewTokenWithoutScope(p) ==
    LET auth_code == Val(ex[p].auth_code)
    IN  [client_id |-> auth_code.client_id, me |-> auth_code.me, scope |-> <<>>,
         user |-> auth_code.user, created_at |-> ex[p].created_at,
         expires_at |-> ex[p].expires_at, revoked_at |-> Null]

\* The row of IndieAuthAccessToken.objects.create(...): created_at is the time of
\* the create call, inside the transaction.
NewToken(p) ==
    LET auth_code == Val(ex[p].auth_code)
    IN  [client_id |-> auth_code.client_id, me |-> auth_code.me, scope |-> auth_code.scope,
         user |-> auth_code.user, created_at |-> ex[p].created_at,
         expires_at |-> ex[p].expires_at, revoked_at |-> Null]

TokenPayload(p) ==
    LET auth_code == Val(ex[p].auth_code)
    IN  [status |-> 200, body |-> "token", error |-> "",
         access_token |-> ex[p].access_token, me |-> auth_code.me,
         scope |-> auth_code.scope, expires_in |-> ex[p].expires_at - now]

\* What the transaction writes to the code table when it commits.
CommitCodes(p) ==
    [codes EXCEPT ![hash_token(ex[p].req.code)].used_at = ex[p].used_at]

CommitTokens(p) == Put(tokens, hash_token(ex[p].access_token), NewToken(p))

\* The end of the atomic block, and the response.
token_commit(p) ==
    /\ ex[p].pc = "commit"
    /\ codes' = CommitCodes(p)
    /\ tokens' = CommitTokens(p)
    /\ minted' = minted \cup {<<hash_token(ex[p].req.code), hash_token(ex[p].access_token)>>}
    /\ lock' = Unlock(p)
    /\ Finish(p, TokenPayload(p))
    /\ UNCHANGED <<now, clients, consents, ar, ir, rs, nz, rw, ra, net, disc>>

\* The worker takes the next request.
token_return(p) ==
    /\ ex[p].pc = "done"
    /\ ex' = [ex EXCEPT ![p] = Idle]
    /\ UNCHANGED <<now, clients, codes, tokens, consents, minted, lock, ar, ir, rs, nz, rw, ra, net, disc>>

(***************************************************************************)
(* Introspection.  A request is [method, body, query, bearer]: the token   *)
(* parameter of the form body, of the query string, and the token of an    *)
(* "Authorization: Bearer" header ("" when absent).  A response is         *)
(* [status, active, scope, client_id, me, iat, exp].                       *)
(***************************************************************************)
Inactive(status) ==
    [status |-> status, active |-> FALSE, scope |-> <<>>, client_id |-> EmptyUrl,
     me |-> EmptyUrl, iat |-> Null, exp |-> Null]

introspect_token_value(req) ==
    LET posted == IF req.method = "POST" THEN req.body ELSE ""
        got == IF req.method = "GET" /\ posted = "" THEN req.query ELSE posted
    IN  IF got = "" THEN req.bearer ELSE got

introspect_response_ignoring_revocation(req) ==
    LET token_value == introspect_token_value(req)
        token_hash == hash_token(token_value)
    IN  IF token_value = "" THEN Inactive(400)
        ELSE IF token_hash \notin DOMAIN tokens THEN Inactive(200)
        ELSE IF tokens[token_hash].expires_at <= now THEN Inactive(200)
        ELSE [status |-> 200, active |-> TRUE, scope |-> tokens[token_hash].scope,
              client_id |-> tokens[token_hash].client_id, me |-> tokens[token_hash].me,
              iat |-> Some(tokens[token_hash].created_at),
              exp |-> Some(tokens[token_hash].expires_at)]

introspect_response_unknown_404(req) ==
    LET token_value == introspect_token_value(req)
        token_hash == hash_token(token_value)
    IN  IF token_value = "" THEN Inactive(400)
        ELSE IF token_hash \notin DOMAIN tokens THEN Inactive(404)
        ELSE IF ~IsNull(tokens[token_hash].revoked_at) THEN Inactive(200)
        ELSE IF tokens[token_hash].expires_at <= now THEN Inactive(200)
        ELSE [status |-> 200, active |-> TRUE, scope |-> tokens[token_hash].scope,
              client_id |-> tokens[token_hash].client_id, me |-> tokens[token_hash].me,
              iat |-> Some(tokens[token_hash].created_at),
              exp |-> Some(tokens[token_hash].expires_at)]

introspect_response(req) ==
    LET token_value == introspect_token_value(req)
        token_hash == hash_token(token_value)
    IN  IF token_value = "" THEN Inactive(400)
        ELSE IF token_hash \notin DOMAIN tokens THEN Inactive(200)
        ELSE IF ~IsNull(tokens[token_hash].revoked_at) THEN Inactive(200)
        ELSE IF tokens[token_hash].expires_at <= now THEN Inactive(200)
        ELSE [status |-> 200, active |-> TRUE, scope |-> tokens[token_hash].scope,
              client_id |-> tokens[token_hash].client_id, me |-> tokens[token_hash].me,
              iat |-> Some(tokens[token_hash].created_at),
              exp |-> Some(tokens[token_hash].expires_at)]

introspect(req) ==
    /\ ir' = [req |-> req, resp |-> introspect_response(req)]
    /\ UNCHANGED <<now, clients, codes, tokens, consents, minted, ex, lock, ar, rs, nz, rw, ra, net,
                   disc>>

(***************************************************************************)
(* The bearer-token checks of the resource endpoints.  A request carries   *)
(* auth: {} without an "Authorization: Bearer " header, {token} with one   *)
(* (the token may be empty); the Micropub request also carries the         *)
(* access_token of its form and of its query string.                       *)
(***************************************************************************)
Unauthorized401 == [status |-> 401, body |-> "unauthorized", me |-> EmptyUrl, name |-> ""]

userinfo_response_ignoring_expiry(req) ==
    LET token_hash == hash_token(Val(req.auth))
    IN  IF req.auth = {} THEN Unauthorized401
        ELSE IF token_hash \notin DOMAIN tokens THEN Unauthorized401
        ELSE IF ~IsNull(tokens[token_hash].revoked_at) THEN Unauthorized401
        ELSE [status |-> 200, body |-> "profile", me |-> tokens[token_hash].me,
              name |-> tokens[token_hash].user]

userinfo_response(req) ==
    LET token_hash == hash_token(Val(req.auth))
    IN  IF req.auth = {} THEN Unauthorized401
        ELSE IF token_hash \notin DOMAIN tokens THEN Unauthorized401
        ELSE IF ~IsNull(tokens[token_hash].revoked_at) THEN Unauthorized401
        ELSE IF tokens[token_hash].expires_at <= now THEN Unauthorized401
        ELSE [status |-> 200, body |-> "profile", me |-> tokens[token_hash].me,
              name |-> tokens[token_hash].user]

userinfo(req) ==
    /\ rs' = [rs EXCEPT !.userinfo = [req |-> req, resp |-> userinfo_response(req)]]
    /\ UNCHANGED <<now, clients, codes, tokens, consents, minted, ex, lock, ar, ir, nz, rw, ra,
                   net, disc>>

\* micropub.views._parse_scope of a stored scope string
parse_scope(scope_value) == SelectSeq(scope_value, LAMBDA s : s # "")

\* micropub.views._introspect_local: <<authorized, scopes>>
introspect_local(token) ==
    LET token_hash == hash_token(token)
    IN  IF token_hash \notin DOMAIN tokens THEN <<FALSE, <<>>>>
        ELSE IF ~IsNull(tokens[token_hash].revoked_at) THEN <<FALSE, <<>>>>
        ELSE IF tokens[token_hash].expires_at <= now THEN <<FALSE, <<>>>>
        ELSE <<TRUE, parse_scope(tokens[token_hash].scope)>>

\* micropub.views._authorized: the verdict, the scopes and micropub_auth_error
authorized(req) ==
    LET token == IF req.auth # {} THEN Val(req.auth)
                 ELSE IF req.form # "" THEN req.form ELSE req.query
        local == introspect_local(token)
    IN  IF token = ""
        THEN [authorized |-> FALSE, scopes |-> <<>>, error |-> "missing_token"]
        ELSE [authorized |-> local[1], scopes |-> local[2],
              error |-> IF local[1] THEN "" ELSE "introspect_inactive"]

micropub(req) ==
    /\ rs' = [rs EXCEPT !.micropub = [req |-> req, result |-> authorized(req)]]
    /\ UNCHANGED <<now, clients, codes, tokens, consents, minted, ex, lock, ar, ir, nz, rw, ra,
                   net, disc>>

(***************************************************************************)
(* The clock.  It ticks minute by minute up to MaxClock and otherwise      *)
(* jumps to the instants where a comparison of the code changes its        *)
(* outcome: the minute of each expiry, and the first minute a cached       *)
(* client is stale.  Each specification runs the clock up to a horizon.    *)
(***************************************************************************)
FlowHorizon == AUTH_CODE_TTL + AUTH_CODE_TTL + MaxClock

TokenHorizon == ACCESS_TOKEN_TTL + AUTH_CODE_TTL + MaxClock

Deadlines ==
    {codes[h].expires_at : h \in DOMAIN codes}
    \cup {tokens[t].expires_at : t \in DOMAIN tokens}
    \cup {Val(clients[c].last_fetched_at) + CLIENT_CACHE_TTL + 1 :
            c \in {k \in DOMAIN clients : ~IsNull(clients[k].last_fetched_at)}}

Instants ==
    (IF now < MaxClock THEN {now + 1} ELSE {}) \cup Deadlines

tick(horizon) ==
    /\ \E t \in Instants : t > now /\ t <= horizon /\ now' = t
    /\ UNCHANGED <<clients, codes, tokens, consents, minted, ex, lock, ar, ir, rs, nz, rw, ra, net, disc>>

(***************************************************************************)
(* The values requests are drawn from.                                     *)
(***************************************************************************)
ClientA == Url("https", "client.example", <<>>)

ClientB == Url("https", "cdn.example", <<>>)

CallbackA == Url("https", "client.example", <<"/", "a">>)

CallbackSlash == Url("https", "client.example", <<"/", "a", "/">>)

Doc(link_uris, body_uris, content_type, name, size) ==
    [kind |-> "doc", size |-> size, content_type |-> content_type, link_uris |-> link_uris,
     body_uris |-> body_uris, name |-> name, logo |-> "", link_logo |-> ""]

Redirect(to) == [kind |-> "redirect", to |-> to]

NetError == [kind |-> "error"]

\* client.example publishes its callback; every other host serves an empty page.
DefaultNet ==
    [h \in Hosts |->
        IF h = "client.example" THEN Doc({}, {CallbackA}, "json", "App", 0)
        ELSE Doc({}, {}, "html", "", 0)]

NoAuthReq ==
    [method |-> "", user |-> "", client_id |-> EmptyUrl, redirect_uri |-> EmptyUrl,
     me |-> EmptyUrl, scope |-> <<>>, state |-> "", response_type |-> "",
     code_challenge |-> <<>>, code_challenge_method |-> "", prompt |-> "",
     decision |-> "", remember |-> FALSE]

NoAuthResp ==
    [status |-> 0, kind |-> "", location |-> EmptyUrl, code |-> "", error |-> "",
     state |-> "", iss |-> EmptyUrl]

NoIntrospectReq == [method |-> "", body |-> "", query |-> "", bearer |-> ""]

EmptyMap == [x \in {} |-> {}]

NoRs ==
    [userinfo |-> [req |-> [auth |-> {}], resp |-> [Unauthorized401 EXCEPT !.status = 0]],
     micropub |-> [req |-> [auth |-> {}, form |-> "", query |-> ""],
                   result |-> [authorized |-> FALSE, scopes |-> <<>>, error |-> ""]]]

NoRa ==
    [client_id |-> EmptyUrl, redirect_uri |-> EmptyUrl, client |-> {}, done |-> FALSE,
     allowed |-> FALSE]

\* The state after construction: empty tables, idle workers.
InitStores ==
    /\ now = 0
    /\ clients = EmptyMap
    /\ codes = EmptyMap
    /\ tokens = EmptyMap
    /\ consents = EmptyMap
    /\ minted = {}
    /\ ex = [p \in Procs |-> Idle]
    /\ lock = EmptyMap
    /\ ar = [req |-> NoAuthReq, resp |-> NoAuthResp]
    /\ ir = [req |-> NoIntrospectReq, resp |-> Inactive(0)]
    /\ rs = NoRs
    /\ rw = NoRw
    /\ nz = NoNz
    /\ disc = NoDisc

Init ==
    /\ InitStores
    /\ ra = NoRa
    /\ net = DefaultNet

(***************************************************************************)
(* Spec: the code and token life cycle.  The owner approves authorization  *)
(* requests of client A; two workers serve the token endpoint.             *)
(***************************************************************************)
ApproveReq(challenge) ==
    [method |-> "POST", user |-> "owner", client_id |-> ClientA,
     redirect_uri |-> CallbackA, me |-> ServerBase, scope |-> <<"create">>,
     state |-> "s1", response_type |-> "code", code_challenge |-> challenge,
     code_challenge_method |-> S256, prompt |-> "", decision |-> "approve",
     remember |-> FALSE]

FlowAuthReqs == {ApproveReq(base64url_sha256("v1"))}

ExchangeReq(code, client_id, redirect_uri, code_verifier) ==
    [method |-> "POST", action |-> "", token |-> "", access_token |-> "",
     grant_type |-> "authorization_code", code |-> code, client_id |-> client_id,
     redirect_uri |-> redirect_uri, code_verifier |-> code_verifier]

FlowTokenReqs ==
    UNION {{ExchangeReq(c, ClientA, CallbackA, "v1"),
            ExchangeReq(c, ClientA, CallbackA, "v2"),
            ExchangeReq(c, ClientB, CallbackA, "v1"),
            ExchangeReq(c, ClientA, CallbackSlash, "v1")} : c \in RawCodes}

Next ==
    \/ \E req \in FlowAuthReqs : authorize_post(req)
    \/ \E p \in Procs, req \in FlowTokenReqs : token_begin(p, req)
    \/ \E p \in Procs : token_select(p)
    \/ \E p \in Procs : token_check(p)
    \/ \E p \in Procs : token_consume(p)
    \/ \E p \in Procs : token_mint(p)
    \/ \E p \in Procs : token_commit(p)
    \/ \E p \in Procs : token_return(p)
    \/ tick(FlowHorizon)

Spec == Init /\ [][Next]_vars

(***************************************************************************)
(* Properties of the code and token life cycle (Spec).                     *)
(***************************************************************************)
IsExchange(p) == ex[p].pc = "done" /\ ex[p].sel # ""

CodeOf(p) == codes[hash_token(ex[p].req.code)]

\* The request presents the code's own client_id and redirect_uri, and a verifier
\* whose S256 transform is the challenge the code was issued with.
Presents(p) ==
    /\ ex[p].req.client_id = CodeOf(p).client_id
    /\ ex[p].req.redirect_uri = CodeOf(p).redirect_uri
    /\ CodeOf(p).code_challenge = base64url_sha256(ex[p].req.code_verifier)

Succeeded(p) ==
    /\ ex[p].resp.status = 200
    /\ ex[p].resp.body = "token"
    /\ ex[p].resp.access_token # ""
    /\ hash_token(ex[p].resp.access_token) \in DOMAIN tokens

InvalidGrant(p) ==
    /\ ex[p].resp = JsonError("invalid_grant")
    /\ ex[p].access_token = ""

MintedFrom(code_hash) == {m \in minted : m[1] = code_hash}

\* C1: an exchange that meets the code unconsumed, presents its verifier, client_id
\* and redirect_uri and is answered before the expiry succeeds with an access token;
\* every exchange that meets the code consumed is answered invalid_grant and mints
\* nothing, whatever it presents; so a code yields at most one token.
C1_ExchangeSucceedsOnce ==
    /\ \A p \in Procs :
          IsExchange(p) =>
             /\ (ex[p].sel = "found" /\ Presents(p) /\ now < CodeOf(p).expires_at)
                   => Succeeded(p)
             /\ ex[p].sel = "used" => InvalidGrant(p)
    /\ \A h \in DOMAIN codes : Cardinality(MintedFrom(h)) <= 1

C1_Witness ==
    \E p, q \in Procs :
        /\ p # q
        /\ IsExchange(p) /\ IsExchange(q)
        /\ ex[p].req = ex[q].req
        /\ ex[p].sel = "found" /\ Succeeded(p)
        /\ ex[q].sel = "used" /\ Presents(q) /\ InvalidGrant(q)

\* C2: of two exchanges that present the same unexpired code with the correct
\* verifier, client_id and redirect_uri, and of which one met the code unconsumed,
\* exactly one is answered 200 with a token and the other invalid_grant, however
\* their steps interleave.
C2_ExactlyOneWins ==
    \A p, q \in Procs :
        (/\ p # q
         /\ IsExchange(p) /\ IsExchange(q)
         /\ ex[p].req.code = ex[q].req.code
         /\ ex[p].sel # "absent" /\ ex[q].sel # "absent"
         /\ ex[p].sel = "found" \/ ex[q].sel = "found"
         /\ Presents(p) /\ Presents(q)
         /\ now < CodeOf(p).expires_at)
        => \/ Succeeded(p) /\ InvalidGrant(q)
           \/ Succeeded(q) /\ InvalidGrant(p)

C2_Witness ==
    \E p, q \in Procs :
        /\ p # q
        /\ IsExchange(p) /\ IsExchange(q)
        /\ ex[p].req.code = ex[q].req.code
        /\ ex[p].sel = "found" /\ ex[q].sel = "used"
        /\ Presents(p) /\ Presents(q)
        /\ now < CodeOf(p).expires_at
        /\ Succeeded(p) /\ InvalidGrant(q)
        /\ Cardinality(DOMAIN tokens) = 1

\* C3: in every committed state a consumed code has exactly one minted token, which
\* is stored, and an unconsumed code has none.
C3_OneTokenPerConsumedCode ==
    /\ \A h \in DOMAIN codes :
          Cardinality(MintedFrom(h)) = IF IsNull(codes[h].used_at) THEN 0 ELSE 1
    /\ \A m \in minted : m[1] \in DOMAIN codes /\ m[2] \in DOMAIN tokens

C3_Witness ==
    \E h, g \in DOMAIN codes :
        /\ ~IsNull(codes[h].used_at) /\ Cardinality(MintedFrom(h)) = 1
        /\ IsNull(codes[g].used_at) /\ MintedFrom(g) = {}
        /\ \E p \in Procs : ex[p].pc = "commit" /\ hash_token(ex[p].req.code) = g

\* C4: an exchange that arrives when the code has reached its expiry is answered
\* invalid_grant and mints no token, also when everything it presents is correct.
C4_ExpiredCodeRejected ==
    \A p \in Procs :
        (ex[p].pc = "done" /\ ex[p].late) => InvalidGrant(p)

C4_Witness ==
    \E p \in Procs :
        /\ IsExchange(p) /\ ex[p].late
        /\ ex[p].sel = "found" /\ Presents(p)
        /\ now = CodeOf(p).expires_at
        /\ InvalidGrant(p)

\* C5: an exchange succeeds only if client_id and redirect_uri equal the stored ones
\* and the S256 transform of the verifier equals the stored challenge; an exchange
\* that meets the code and differs in any of the three is answered invalid_grant and
\* mints no token.
C5_MismatchRejected ==
    \A p \in Procs :
        IsExchange(p) =>
           /\ ex[p].resp.status = 200 => (ex[p].sel = "found" /\ Presents(p))
           /\ (ex[p].sel = "found" /\ ~Presents(p)) => InvalidGrant(p)

C5_Witness ==
    \E p, q \in Procs :
        /\ IsExchange(p) /\ ex[p].sel = "found" /\ InvalidGrant(p)
        /\ ex[p].req.redirect_uri # CodeOf(p).redirect_uri
        /\ ex[p].req.client_id = CodeOf(p).client_id
        /\ IsExchange(q) /\ ex[q].sel = "found" /\ InvalidGrant(q)
        /\ CodeOf(q).code_challenge # base64url_sha256(ex[q].req.code_verifier)
        /\ now < CodeOf(q).expires_at

(***************************************************************************)
(* SpecRedirect: the redirect authorizer as a function.  The arguments are *)
(* drawn at the start; the one step applies _redirect_uri_allowed to them. *)
(* A declared list holds what discovery or the admin form stores: http or  *)
(* https URLs with a netloc and without fragment.                          *)
(***************************************************************************)
Paths(n) ==
    {pth \in UNION {[1..k -> PathChars] : k \in 0..n} : pth = <<>> \/ pth[1] = "/"}

RedirectClientIds ==
    {[Url("https", "client.example", pth) EXCEPT !.port = prt] :
        prt \in {"", "8443"}, pth \in Paths(MaxPathLen - 1)}

RedirectUris ==
    {EmptyUrl} \cup
    [scheme : {"https", "HTTPS", "http", "ftp"}, userinfo : {"", "u"},
     host : {"client.example", "cdn.example"}, port : {"", "8443"},
     path : Paths(MaxPathLen), query : {""}, fragment : {"", "frag"}]

ClientRow(redirect_uris) == [NewClient EXCEPT !.redirect_uris = redirect_uris]

DeclaredUniverse ==
    {CallbackA, Url("HTTPS", "client.example", <<"/", "a">>),
     Url("https", "cdn.example", <<"/", "a">>)}

DeclaredRedirectUris ==
    DeclaredUniverse \cup
    {EmptyUrl, CallbackSlash, Url("https", "client.example", <<>>),
     [CallbackA EXCEPT !.fragment = "frag"], [CallbackA EXCEPT !.port = "8443"],
     Url("http", "client.example", <<"/", "a">>),
     Url("https", "cdn.example", <<"/", "a", "/", "a">>)}

RedirectInputs ==
    ([client_id : RedirectClientIds, redirect_uri : RedirectUris,
      client : {{}, {ClientRow({})}}, done : {FALSE}, allowed : {FALSE}])
    \cup
    ([client_id : {ClientA, CallbackA, ClientB}, redirect_uri : DeclaredRedirectUris,
      client : {{ClientRow(d)} : d \in SUBSET DeclaredUniverse \ {{}}},
      done : {FALSE}, allowed : {FALSE}])

InitRedirect ==
    /\ InitStores
    /\ net = DefaultNet
    /\ ra \in RedirectInputs

check_redirect ==
    /\ ~ra.done
    /\ ra' = [ra EXCEPT !.done = TRUE,
                        !.allowed = redirect_uri_allowed(ra.client_id, ra.redirect_uri,
                                                         ra.client)]
    /\ UNCHANGED <<now, clients, codes, tokens, consents, minted, ex, lock, ar, ir, rs, nz, rw, net, disc>>

NextRedirect == check_redirect

SpecRedirect == InitRedirect /\ [][NextRedirect]_vars

NoDeclaredList == ra.client = {} \/ Val(ra.client).redirect_uris = {}

AbsoluteHttpNoFragment(u) ==
    /\ Lower(u.scheme) \in {"http", "https"}
    /\ u.host # ""
    /\ u.fragment = ""

\* q lies strictly below P, the boundary being a "/".
DescendantOf(q, P) ==
    /\ Len(q) > Len(P)
    /\ \A i \in 1..Len(P) : q[i] = P[i]
    /\ P[Len(P)] = "/" \/ q[Len(P) + 1] = "/"

PathRule(client_id, redirect_uri) ==
    client_id.path # <<>> =>
        \/ redirect_uri.path = client_id.path
        \/ DescendantOf(redirect_uri.path, client_id.path)

\* C7 as stated: without a declared list a redirect_uri is accepted iff it is an
\* absolute http/https URL without fragment, of client_id's scheme and host, whose
\* path obeys the path rule.
C7_Original ==
    (ra.done /\ NoDeclaredList) =>
        (ra.allowed <=>
            /\ AbsoluteHttpNoFragment(ra.redirect_uri)
            /\ Lower(ra.redirect_uri.scheme) = Lower(ra.client_id.scheme)
            /\ Lower(ra.redirect_uri.host) = Lower(ra.client_id.host)
            /\ PathRule(ra.client_id, ra.redirect_uri))

\* C7 (amended): without a declared list a redirect_uri is accepted iff it is an
\* absolute http/https URL without fragment whose scheme and netloc (the host
\* together with userinfo and port, as written) equal those of client_id and whose
\* path, when client_id has a path P, is P or a descendant of P bounded by "/".
C7_PathBoundary ==
    (ra.done /\ NoDeclaredList) =>
        (ra.allowed <=>
            /\ AbsoluteHttpNoFragment(ra.redirect_uri)
            /\ Lower(ra.redirect_uri.scheme) = Lower(ra.client_id.scheme)
            /\ ra.redirect_uri.host = ra.client_id.host
            /\ ra.redirect_uri.port = ra.client_id.port
            /\ ra.redirect_uri.userinfo = ra.client_id.userinfo
            /\ PathRule(ra.client_id, ra.redirect_uri))

C7_Witness ==
    /\ ra.done /\ NoDeclaredList /\ ~ra.allowed
    /\ AbsoluteHttpNoFragment(ra.redirect_uri)
    /\ ra.client_id = Url("https", "client.example", <<"/", "a">>)
    /\ ra.redirect_uri = Url("https", "client.example", <<"/", "a", "-">>)

\* C8: with a non-empty declared list a redirect_uri is accepted iff it is equal, as
\* a string, to an entry of the list; there is no fallback to the origin and path rule.
C8_ExactMatch ==
    (ra.done /\ ~NoDeclaredList) =>
        (ra.allowed <=> ra.redirect_uri \in Val(ra.client).redirect_uris)

C8_Witness ==
    /\ ra.done /\ ~ra.allowed
    /\ ra.client_id = ClientA
    /\ ~NoDeclaredList
    /\ Val(ra.client).redirect_uris = {CallbackA}
    /\ ra.redirect_uri = CallbackSlash

(***************************************************************************)
(* SpecAuthorize: the authorization endpoint under arbitrary requests.     *)
(* Client A declares CallbackA; cdn.example declares nothing, so that the  *)
(* origin rule decides for it; an ftp client_id resolves to no client.     *)
(***************************************************************************)
ClientFtp == Url("ftp", "client.example", <<>>)

CallbackCdn == Url("https", "cdn.example", <<"/", "a">>)

StrangerMe == Url("https", "stranger.example", <<"/">>)

AuthorizeParams(methods, users, mes, pkce, pairs, prompts, decisions, remembers) ==
    {[method |-> m, user |-> u, client_id |-> cr[1], redirect_uri |-> cr[2], me |-> me,
      scope |-> <<"create">>, state |-> "s1", response_type |-> rt,
      code_challenge |-> pk[1], code_challenge_method |-> pk[2], prompt |-> pr,
      decision |-> d, remember |-> rem] :
        m \in methods, u \in users, cr \in pairs, me \in mes,
        rt \in {"code", "token"}, pk \in pkce, pr \in prompts, d \in decisions,
        rem \in remembers}

GoodPkce == <<base64url_sha256("v1"), S256>>

\* Every combination of session, me, response_type and PKCE parameters for a client
\* with its own and with a foreign callback; prompt, decision and remember vary on
\* the owner's otherwise valid requests.
AuthorizeReqs ==
    LET pkce == {GoodPkce, <<<<>>, S256>>, <<base64url_sha256("v1"), "plain">>}
        users == {"", "owner"}
        mes == {ServerBase, StrangerMe}
        own == {<<ClientA, CallbackA>>, <<ClientB, CallbackCdn>>}
        all == own \cup {<<ClientA, CallbackCdn>>, <<ClientFtp, CallbackA>>}
    IN  AuthorizeParams({"GET"}, users, mes, pkce, all, {""}, {""}, {FALSE})
        \cup AuthorizeParams({"GET"}, {"owner"}, {ServerBase}, {GoodPkce}, own,
                             {"consent"}, {""}, {FALSE})
        \cup AuthorizeParams({"POST"}, users, mes, pkce, all, {""}, {"approve"}, {FALSE})
        \cup AuthorizeParams({"POST"}, {"owner"}, {ServerBase}, {GoodPkce}, own, {""},
                             {"approve", "deny"}, {FALSE, TRUE})

NextAuthorize ==
    \/ \E req \in AuthorizeReqs : authorize_get(req)
    \/ \E req \in AuthorizeReqs : authorize_post(req)

SpecAuthorize == Init /\ [][NextAuthorize]_vars

\* The request's redirect_uri passes the redirect authorizer for its client_id and
\* the client the request resolved.
Authorized(req) ==
    /\ normalize_url(req.client_id) # {}
    /\ req.client_id \in DOMAIN clients
    /\ redirect_uri_allowed(req.client_id, req.redirect_uri, {clients[req.client_id]})

\* What a request can fail of the client, redirect_uri, me and PKCE validations.
FailsValidation(req) ==
    \/ normalize_url(req.client_id) = {}
    \/ ~Authorized(req)
    \/ normalize_url(req.me) = {}
    \/ Val(normalize_url(req.me)) \notin allowed_me_urls
    \/ req.code_challenge = <<>>
    \/ req.code_challenge_method # S256

\* The validations the handler runs on the request: GET reads response_type and
\* validates before it looks at the session; POST reads no response_type and sends
\* an anonymous browser to the login page before it reads the form.
Validates(req) == req.method = "GET" \/ req.user # ""

HostUrl(h) == Url("https", h, <<>>)

Answers ==
    {Doc({}, {CallbackA}, "json", "App", 0), Doc({}, {}, "html", "", MAX_METADATA_BYTES + 1),
     NetError, Redirect(EmptyUrl)}
    \cup {Redirect(HostUrl(h)) : h \in Hosts}

Webs ==
    {[h \in Hosts |->
        CASE h = "client.example" -> a
          [] h = "cdn.example"    -> b
          [] h = "mixed.example"  -> c
          [] OTHER                -> Doc({}, {CallbackA}, "json", "Inside", 0)] :
        a \in Answers, b \in Answers,
        c \in {Doc({}, {CallbackA}, "json", "Mixed", 0), Redirect(HostUrl("cdn.example"))}}

DiscoveryReqs ==
    {[ApproveReq(base64url_sha256("v1")) EXCEPT !.method = "GET", !.decision = "",
                                                !.client_id = HostUrl(h)] :
        h \in Hosts \ {"cdn.example"}}

InitDiscovery ==
    /\ InitStores
    /\ ra = NoRa
    /\ net \in Webs

NextDiscovery == \E req \in DiscoveryReqs : authorize_get(req)

SpecDiscovery == InitDiscovery /\ [][NextDiscovery]_vars

\* The public-address check: the host resolves, and to no loopback, private,
\* link-local, reserved or multicast address.
PassesPublicCheck(h) ==
    /\ h # ""
    /\ resolve_host_ips(h) # {}
    /\ resolve_host_ips(h) \cap
          {"loopback", "private", "link_local", "reserved", "multicast"} = {}

RedirectsToUnsafe(h) ==
    /\ net[h].kind = "redirect"
    /\ net[h].to # EmptyUrl
    /\ ~PassesPublicCheck(net[h].to.host)

DiscoveryFailed ==
    /\ ~disc.ok
    /\ disc.metadata = {}
    /\ clients[disc.client_id].fetch_error # ""
    /\ clients[disc.client_id].redirect_uris = {}

\* C9: discovery sends no request to a host that fails the public-address check; when
\* the client_id host fails it nothing is sent at all, when the target of a redirect
\* hop fails it the hop is not followed, and in both cases discovery ends in an error
\* without metadata.
C9_NoRequestToPrivateHost ==
    /\ \A i \in DOMAIN disc.sent : PassesPublicCheck(disc.sent[i])
    /\ disc.client_id # EmptyUrl =>
          /\ ~PassesPublicCheck(disc.client_id.host) =>
                (disc.sent = <<>> /\ DiscoveryFailed)
          /\ \A i \in DOMAIN disc.sent :
                RedirectsToUnsafe(disc.sent[i]) =>
                    (i = Len(disc.sent) /\ DiscoveryFailed)

C9_Witness ==
    /\ disc.client_id = ClientA
    /\ disc.sent = <<"client.example", "cdn.example">>
    /\ net["cdn.example"] = Redirect(HostUrl("intra.example"))
    /\ DiscoveryFailed

(***************************************************************************)
(* SpecIntrospect: tokens are issued, revoked and left to expire while the *)
(* introspection endpoint is asked about them.                             *)
(***************************************************************************)
RevokeReq(token) == [NoTokenReq EXCEPT !.method = "POST", !.action = "revoke",
                                       !.token = token]

IntrospectFlowReqs ==
    {ExchangeReq("c1", ClientA, CallbackA, "v1"), RevokeReq("t1")}

IntrospectReq(method, body, query, bearer) ==
    [method |-> method, body |-> body, query |-> query, bearer |-> bearer]

IntrospectReqs ==
    {IntrospectReq("POST", "t1", "", ""), IntrospectReq("POST", "tx", "", ""),
     IntrospectReq("GET", "", "t1", ""), IntrospectReq("POST", "", "", "t1"),
     IntrospectReq("POST", "", "t1", ""), IntrospectReq("GET", "", "", "")}

NextIntrospect ==
    \/ \E req \in FlowAuthReqs : authorize_post(req)
    \/ \E req \in IntrospectFlowReqs : token_begin("p1", req)
    \/ token_select("p1")
    \/ token_check("p1")
    \/ token_consume("p1")
    \/ token_mint("p1")
    \/ token_commit("p1")
    \/ token_return("p1")
    \/ \E req \in IntrospectReqs : introspect(req)
    \/ tick(TokenHorizon)

SpecIntrospect == Init /\ [][NextIntrospect]_vars

\* A token with the hash of value is stored, is not revoked and has not expired.
Live(value) ==
    /\ <<"sha256", value>> \in DOMAIN tokens
    /\ IsNull(tokens[<<"sha256", value>>].revoked_at)
    /\ now < tokens[<<"sha256", value>>].expires_at

ActiveBody(value) ==
    LET token == tokens[<<"sha256", value>>]
    IN  [status |-> 200, active |-> TRUE, scope |-> token.scope,
         client_id |-> token.client_id, me |-> token.me,
         iat |-> Some(token.created_at), exp |-> Some(token.expires_at)]

\* C10: an introspection of a presented token answers active=true, with the token's
\* scope, client_id, me, issued-at and expires-at, iff a token of that hash is
\* stored, not revoked and not yet expired; otherwise (unknown, revoked, expired)
\* the answer is the one HTTP 200 body {active: false}.
C10_ActiveIffLive ==
    [][\A req \in IntrospectReqs :
          (introspect(req) /\ introspect_token_value(req) # "") =>
              /\ ir'.resp.active <=> Live(introspect_token_value(req))
              /\ Live(introspect_token_value(req)) =>
                    ir'.resp = ActiveBody(introspect_token_value(req))
              /\ ~Live(introspect_token_value(req)) => ir'.resp = Inactive(200)]_vars

\* At the minute of its expiry an unrevoked token is reported like an unknown one.
C10_Witness ==
    /\ ir.req = IntrospectReq("POST", "t1", "", "")
    /\ ir.resp = Inactive(200)
    /\ <<"sha256", "t1">> \in DOMAIN tokens
    /\ IsNull(tokens[<<"sha256", "t1">>].revoked_at)
    /\ now = tokens[<<"sha256", "t1">>].expires_at

\* The token the endpoint reads from a request: the form field of a POST, else the
\* query parameter of a GET, else the Bearer credential.
TokenRead(req) ==
    IF req.method = "POST" /\ req.body # "" THEN req.body
    ELSE IF req.method = "GET" /\ req.query # "" THEN req.query
    ELSE req.bearer

\* C11 as stated: every answer of the introspection endpoint that reports the token
\* inactive is the HTTP 200 body {active: false}, whatever the request carries.
C11_Original ==
    (ir.req.method # "" /\ ~ir.resp.active) => ir.resp = Inactive(200)

\* C11 (amended): every answer that reports the token inactive has the one body
\* {active: false}; its status is 200 when the request presents a token where the
\* endpoint reads it, and 400 when it presents none there (no token at all, or a
\* POST carrying it in the query string only).
C11_InactiveShape ==
    (ir.req.method # "" /\ ~ir.resp.active) =>
        ir.resp = Inactive(IF TokenRead(ir.req) = "" THEN 400 ELSE 200)

C11_Witness ==
    /\ ir.req = IntrospectReq("POST", "", "t1", "")
    /\ ir.resp = Inactive(400)
    /\ Live("t1")

(***************************************************************************)
(* SpecRevoke: two workers exchange a code and revoke tokens (a stored     *)
(* one by either parameter name, an unknown one, none at all) while the    *)
(* clock runs to the token's expiry and the token is introspected.         *)
(***************************************************************************)
RevokeReqs ==
    {RevokeReq("t1"), RevokeReq("tx"), RevokeReq(""),
     [RevokeReq("") EXCEPT !.access_token = "t1"]}

NextRevoke ==
    \/ \E req \in FlowAuthReqs : authorize_post(req)
    \/ \E p \in Procs : token_begin(p, ExchangeReq("c1", ClientA, CallbackA, "v1"))
    \/ \E p \in Procs, req \in RevokeReqs : token_begin(p, req)
    \/ \E p \in Procs : token_select(p)
    \/ \E p \in Procs : token_check(p)
    \/ \E p \in Procs : token_consume(p)
    \/ \E p \in Procs : token_mint(p)
    \/ \E p \in Procs : token_commit(p)
    \/ \E p \in Procs : token_return(p)
    \/ introspect(IntrospectReq("POST", "t1", "", ""))
    \/ tick(TokenHorizon)

SpecRevoke == Init /\ [][NextRevoke]_vars

IsRevoke(p) ==
    /\ ex[p].pc = "done"
    /\ ex[p].req.method = "POST"
    /\ ex[p].req.action = "revoke"

Revoked200 == [NoTokenResp EXCEPT !.status = 200, !.body = "revoked"]

NotRevoked200 == [NoTokenResp EXCEPT !.status = 200, !.body = "not_revoked"]

\* C12 as stated: every POST with action=revoke is answered 200 {revoked: true}.
C12_Original ==
    \A p \in Procs : IsRevoke(p) => ex[p].resp = Revoked200

\* C12 (amended): a revoke that presents a token, as token or as access_token, is
\* answered 200 {revoked: true} whether that token is active, revoked, expired or
\* unknown; a revoke that presents no token is answered 200 {revoked: false}.
C12_NoExistenceOracle ==
    \A p \in Procs :
        IsRevoke(p) =>
            ex[p].resp = IF ex[p].req.token = "" /\ ex[p].req.access_token = ""
                         THEN NotRevoked200 ELSE Revoked200

\* The revoke of an unknown token and the revoke of a stored one got the same answer.
C12_Witness ==
    /\ IsRevoke("p1") /\ IsRevoke("p2")
    /\ ex["p1"].req = RevokeReq("tx")
    /\ ex["p2"].req = RevokeReq("t1")
    /\ ex["p1"].resp = ex["p2"].resp
    /\ <<"sha256", "t1">> \in DOMAIN tokens
    /\ ~IsNull(tokens[<<"sha256", "t1">>].revoked_at)
    /\ Val(tokens[<<"sha256", "t1">>].revoked_at) < now

\* Introspection of the stored token with hash t would not report it active.
Dead(t) == ~IsNull(tokens[t].revoked_at) \/ now >= tokens[t].expires_at

DeadNext(t) == ~IsNull(tokens'[t].revoked_at) \/ now' >= tokens'[t].expires_at

\* C13: no step removes a token or changes anything of it but a null revocation
\* timestamp, which is set once and then kept, also under concurrent revokes; so a
\* token that is revoked or expired stays so, and every later introspection of it
\* reports it inactive.
C13_RevocationIsFinal ==
    [][/\ \A t \in DOMAIN tokens :
            /\ t \in DOMAIN tokens'
            /\ ~IsNull(tokens[t].revoked_at) => tokens'[t] = tokens[t]
            /\ tokens'[t] = [tokens[t] EXCEPT !.revoked_at = tokens'[t].revoked_at]
            /\ Dead(t) => DeadNext(t)
       /\ \A req \in IntrospectReqs :
            (/\ introspect(req)
             /\ hash_token(introspect_token_value(req)) \in DOMAIN tokens
             /\ Dead(hash_token(introspect_token_value(req))))
            => ~ir'.resp.active]_vars

\* Both workers have revoked the token, time has passed since the first of them did,
\* the token has not expired, and the last introspection reported it inactive.
C13_Witness ==
    /\ IsRevoke("p1") /\ IsRevoke("p2")
    /\ ex["p1"].req = RevokeReq("t1")
    /\ ex["p2"].req = [RevokeReq("") EXCEPT !.access_token = "t1"]
    /\ <<"sha256", "t1">> \in DOMAIN tokens
    /\ ~IsNull(tokens[<<"sha256", "t1">>].revoked_at)
    /\ Val(tokens[<<"sha256", "t1">>].revoked_at) < now
    /\ now < tokens[<<"sha256", "t1">>].expires_at
    /\ ir.req = IntrospectReq("POST", "t1", "", "")
    /\ ir.resp = Inactive(200)

(***************************************************************************)
(* SpecMint: the owner approves two different requests (another client,    *)
(* another me, another scope); one worker exchanges the codes, with the    *)
(* right and with the other client's parameters; tokens are introspected.  *)
(***************************************************************************)
ApproveReqB ==
    [ApproveReq(base64url_sha256("v1")) EXCEPT
        !.client_id = ClientB, !.redirect_uri = CallbackCdn,
        !.me = Url("https", "me.example", <<>>), !.scope = <<"update", "", "media">>]

MintAuthReqs == {ApproveReq(base64url_sha256("v1")), ApproveReqB}

MintTokenReqs ==
    {ExchangeReq(c, ClientA, CallbackA, "v1") : c \in RawCodes}
    \cup {ExchangeReq(c, ClientB, CallbackCdn, "v1") : c \in RawCodes}

NextMint ==
    \/ \E req \in MintAuthReqs : authorize_post(req)
    \/ \E req \in MintTokenReqs : token_begin("p1", req)
    \/ token_select("p1")
    \/ token_check("p1")
    \/ token_consume("p1")
    \/ token_mint("p1")
    \/ token_commit("p1")
    \/ token_return("p1")
    \/ \E t \in {"t1", "t2"} : introspect(IntrospectReq("POST", t, "", ""))
    \/ tick(TokenHorizon)

SpecMint == Init /\ [][NextMint]_vars

\* The code a stored token was minted from.
CodeOfToken(t) == codes[(CHOOSE m \in minted : m[2] = t)[1]]

\* The code records what the owner approved in one of the requests.
Approved(code) ==
    \E req \in MintAuthReqs :
        /\ code.client_id = req.client_id
        /\ code.user = req.user
        /\ {code.me} = normalize_url(req.me)
        /\ code.scope = SelectSeq(req.scope, LAMBDA item : item # "")

\* C14: every stored token was minted by the exchange of a code and carries that
\* code's client_id, me, scope and user, with expiry = mint time + 30 days; the token
\* response returns that me and scope; and introspection of an active token reports
\* the scope, client_id and me of the code, which are those the owner approved.
C14_TokenBoundToCode ==
    /\ \A t \in DOMAIN tokens :
          /\ \E m \in minted : m[2] = t /\ m[1] \in DOMAIN codes
          /\ ~IsNull(CodeOfToken(t).used_at)
          /\ Approved(CodeOfToken(t))
          /\ tokens[t].client_id = CodeOfToken(t).client_id
          /\ tokens[t].me = CodeOfToken(t).me
          /\ tokens[t].scope = CodeOfToken(t).scope
          /\ tokens[t].user = CodeOfToken(t).user
          /\ tokens[t].expires_at = tokens[t].created_at + ACCESS_TOKEN_TTL
    /\ \A p \in Procs :
          (ex[p].pc = "done" /\ ex[p].resp.body = "token") =>
              /\ <<"sha256", ex[p].resp.access_token>> \in DOMAIN tokens
              /\ ex[p].resp.me = CodeOf(p).me
              /\ ex[p].resp.scope = CodeOf(p).scope
              /\ CodeOfToken(<<"sha256", ex[p].resp.access_token>>) = CodeOf(p)
    /\ ir.resp.active =>
          /\ <<"sha256", TokenRead(ir.req)>> \in DOMAIN tokens
          /\ ir.resp.scope = CodeOfToken(<<"sha256", TokenRead(ir.req)>>).scope
          /\ ir.resp.client_id = CodeOfToken(<<"sha256", TokenRead(ir.req)>>).client_id
          /\ ir.resp.me = CodeOfToken(<<"sha256", TokenRead(ir.req)>>).me
          /\ ir.resp.exp = Some(Val(ir.resp.iat) + ACCESS_TOKEN_TTL)

\* Two tokens of different clients are stored, and the introspection of the second
\* reports what the owner approved for the second client.
C14_Witness ==
    /\ Cardinality(DOMAIN tokens) = 2
    /\ \E t, u \in DOMAIN tokens : tokens[t].client_id # tokens[u].client_id
    /\ ir.resp.active
    /\ ir.resp.client_id = ClientB
    /\ ir.resp.scope = <<"update", "media">>
    /\ ir.resp.me = Url("https", "me.example", <<"/">>)
    /\ ex["p1"].pc = "done" /\ ex["p1"].resp.body = "token"

(***************************************************************************)
(* SpecResource: a token is issued, revoked and left to expire while the   *)
(* introspection, userinfo and Micropub endpoints are asked about bearer   *)
(* tokens.                                                                 *)
(***************************************************************************)
Bearers == {"", "t1", "tx"}

ResourceFlowReqs == {ExchangeReq("c1", ClientA, CallbackA, "v1"), RevokeReq("t1")}

MicropubReq(auth, form, query) == [auth |-> auth, form |-> form, query |-> query]

MicropubReqs == {MicropubReq({"t1"}, "", ""), MicropubReq({}, "", "t1")}

NextResource ==
    \/ \E req \in FlowAuthReqs : authorize_post(req)
    \/ \E req \in ResourceFlowReqs : token_begin("p1", req)
    \/ token_select("p1")
    \/ token_check("p1")
    \/ token_consume("p1")
    \/ token_mint("p1")
    \/ token_commit("p1")
    \/ token_return("p1")
    \/ introspect(IntrospectReq("GET", "", "", "t1"))
    \/ \E auth \in {{}, {"t1"}} : userinfo([auth |-> auth])
    \/ \E req \in MicropubReqs : micropub(req)
    \/ tick(TokenHorizon)

SpecResource == Init /\ [][NextResource]_vars

\* C15: in every state, for every bearer token, userinfo answers 200 (and otherwise
\* 401 unauthorized) and the Micropub token check authorizes iff introspection of
\* that token reports it active.
C15_SameVerdictEverywhere ==
    \A b \in Bearers \cup RawTokens :
        LET active == introspect_response(IntrospectReq("GET", "", "", b)).active
            answer == userinfo_response([auth |-> {b}])
            verdict == authorized(MicropubReq({b}, "", ""))
        IN  /\ (answer.status = 200) <=> active
            /\ answer.status # 200 => answer = Unauthorized401
            /\ verdict.authorized <=> active
            /\ active <=> Live(b)

\* The stored token is revoked before its expiry and all three endpoints refused it.
C15_Witness ==
    /\ <<"sha256", "t1">> \in DOMAIN tokens
    /\ ~IsNull(tokens[<<"sha256", "t1">>].revoked_at)
    /\ now < tokens[<<"sha256", "t1">>].expires_at
    /\ ir = [req |-> IntrospectReq("GET", "", "", "t1"), resp |-> Inactive(200)]
    /\ rs.userinfo = [req |-> [auth |-> {"t1"}], resp |-> Unauthorized401]
    /\ rs.micropub.req = MicropubReq({"t1"}, "", "")
    /\ rs.micropub.result.error = "introspect_inactive"

(***************************************************************************)
(* Further properties of the authorization endpoint (SpecAuthorize).       *)
(***************************************************************************)
PkceOk(req) == req.code_challenge # <<>> /\ req.code_challenge_method = "S256"

IssuedCode == ar.resp.kind = "redirect" /\ ar.resp.code # ""

StoredCodesHavePkce ==
    \A h \in DOMAIN codes :
        codes[h].code_challenge # <<>> /\ codes[h].code_challenge_method = "S256"

Owner == "owner"

LoginReqs ==
    AuthorizeParams({"GET"}, {"", Owner, "reader"}, {ServerBase, StrangerMe}, {GoodPkce},
                    {<<ClientA, CallbackA>>}, {""}, {""}, {FALSE})
    \cup AuthorizeParams({"POST"}, {"", Owner, "reader"}, {ServerBase, StrangerMe},
                         {GoodPkce}, {<<ClientA, CallbackA>>}, {""}, {"approve"},
                         {FALSE, TRUE})

NextLogin ==
    \/ \E req \in LoginReqs : authorize_get(req)
    \/ \E req \in LoginReqs : authorize_post(req)

SpecLogin == Init /\ [][NextLogin]_vars

\* C17: codes are issued and consents recorded only for requests authenticated as
\* the owner; every other request (that a GET has validated) is redirected to login
\* and adds nothing to the code and consent stores.
C17_OwnerOnly ==
    /\ \A h \in DOMAIN codes : codes[h].user = Owner
    /\ \A k \in DOMAIN consents : k[1] = Owner
    /\ ar.req.method \in {"GET", "POST"} =>
          /\ IssuedCode => ar.req.user = Owner
          /\ (ar.req.user # Owner /\ (ar.req.method = "GET" => ~FailsValidation(ar.req)))
                => ar.resp = redirect_login

(***************************************************************************)
(* SpecConsent: remembered consents.  The owner and a second account       *)
(* approve requests of client A for several scope strings, with and        *)
(* without "remember"; GET requests then ask for the same scope, a subset, *)
(* a superset, a reordering and a whitespace variant, for client A and for *)
(* another client, with and without prompt=consent.                        *)
(***************************************************************************)
ConsentScopes ==
    {<<"create">>, <<"create", "update">>, <<"update", "create">>, <<"create", "">>}

WithScopes(reqs, scopes) == {[r EXCEPT !.scope = s] : r \in reqs, s \in scopes}

ConsentReqs ==
    WithScopes(AuthorizeParams({"GET"}, {Owner}, {ServerBase}, {GoodPkce},
                               {<<ClientA, CallbackA>>}, {"", "consent"}, {""}, {FALSE}),
               ConsentScopes)
    \cup AuthorizeParams({"GET"}, {Owner, "reader", ""}, {ServerBase}, {GoodPkce},
                         {<<ClientA, CallbackA>>, <<ClientB, CallbackCdn>>}, {""}, {""},
                         {FALSE})
    \cup WithScopes(AuthorizeParams({"POST"}, {Owner}, {ServerBase}, {GoodPkce},
                                    {<<ClientA, CallbackA>>}, {""}, {"approve", "deny"},
                                    {FALSE, TRUE}),
                    {<<"create">>, <<"create", "update">>})

NextConsent ==
    \/ \E req \in ConsentReqs : authorize_get(req)
    \/ \E req \in ConsentReqs : authorize_post(req)
    \/ tick(AUTH_CODE_TTL)

SpecConsent == Init /\ [][NextConsent]_vars

\* The step answers an authenticated GET that passed every validation.
ValidatedGetStep ==
    /\ now' = now
    /\ ar'.req.method = "GET"
    /\ ar'.req.user # ""
    /\ ar'.req.response_type = "code"
    /\ ~FailsValidation(ar.req)'

\* The step stored a new code for the request, redirected with it, and refreshed
\* the consent under key; or it rendered the prompt and changed neither store.
AutoApproved(key) ==
    /\ ar'.resp.kind = "redirect"
    /\ ar'.resp.code # ""
    /\ hash_token(ar'.resp.code) \in DOMAIN codes' \ DOMAIN codes
    /\ consents' = [consents EXCEPT ![key] = Some(now)]

Prompted == ar'.resp = render_consent /\ codes' = codes /\ consents' = consents

\* C18 (as first stated): an authenticated, validated GET issues a code without the
\* prompt iff a consent exists for exactly (user, client_id, the scope string as
\* requested) and prompt is not "consent".
C18_Original ==
    [][ValidatedGetStep =>
          LET key == <<ar'.req.user, ar'.req.client_id, ar'.req.scope>>
          IN  IF key \in DOMAIN consents /\ ar'.req.prompt # "consent"
              THEN AutoApproved(key)
              ELSE Prompted]_vars

\* C18: an authenticated GET that passed validation issues a code without the
\* prompt iff a consent exists for exactly (user, client_id, the requested scope
\* string with its items re-joined by single spaces) and prompt is not "consent";
\* then a code is stored and the consent's last_used_at becomes the current time; in
\* every other case the prompt is rendered and neither a code nor a consent is
\* written.  A consent for a subset, a superset or a reordering of the requested
\* scope never auto-approves.
C18_AutoApproveIffConsent ==
    [][ValidatedGetStep =>
          LET key == <<ar'.req.user, ar'.req.client_id, normalize_scopes(ar'.req.scope)>>
          IN  IF key \in DOMAIN consents /\ ar'.req.prompt # "consent"
              THEN AutoApproved(key)
              ELSE Prompted]_vars

\* A GET was auto-approved after the clock moved, the consent now carrying the time
\* of this request.
C18_Witness ==
    /\ ar.req.method = "GET"
    /\ IssuedCode
    /\ now > 0
    /\ ConsentKey(ar.req) \in DOMAIN consents
    /\ consents[ConsentKey(ar.req)] = Some(now)

(***************************************************************************)
(* SpecDecision: the consent form.  Browsers post approve, deny and an     *)
(* empty decision, with and without "remember", with and without a state   *)
(* value, logged in or not, for an allowed and for a foreign me; GET       *)
(* requests use what was remembered.                                       *)
(***************************************************************************)
WithStates(reqs, states) == {[r EXCEPT !.state = s] : r \in reqs, s \in states}

DecisionReqs ==
    LET Code(reqs) == {r \in reqs : r.response_type = "code"}
    IN  WithStates(Code(AuthorizeParams({"POST"}, {Owner}, {ServerBase}, {GoodPkce},
                                        {<<ClientA, CallbackA>>}, {""},
                                        {"approve", "deny", ""}, {FALSE, TRUE})),
                   {"", "s1"})
        \cup WithScopes(Code(AuthorizeParams({"POST"}, {Owner}, {ServerBase}, {GoodPkce},
                                             {<<ClientA, CallbackA>>}, {""}, {"deny"},
                                             {TRUE})),
                        {<<"update">>})
        \cup Code(AuthorizeParams({"POST"}, {Owner, ""}, {ServerBase, StrangerMe},
                                  {GoodPkce},
                                  {<<ClientA, CallbackA>>, <<ClientA, CallbackCdn>>}, {""},
                                  {"deny"}, {TRUE}))
        \cup Code(AuthorizeParams({"GET"}, {Owner}, {ServerBase}, {GoodPkce},
                                  {<<ClientA, CallbackA>>}, {""}, {""}, {FALSE}))

NextDecision ==
    \/ \E req \in DecisionReqs : authorize_get(req)
    \/ \E req \in DecisionReqs : authorize_post(req)
    \/ tick(AUTH_CODE_TTL)

SpecDecision == Init /\ [][NextDecision]_vars

\* The step answers a POST of a logged-in browser that passed every validation.
ValidatedPostStep ==
    /\ now' = now
    /\ ar'.req.method = "POST"
    /\ ar'.req.user # ""
    /\ ~FailsValidation(ar.req)'

ApproveAndRemember == ar'.req.decision = "approve" /\ ar'.req.remember

AccessDenied(req) ==
    [status |-> 302, kind |-> "redirect", location |-> req.redirect_uri, code |-> "",
     error |-> "access_denied", state |-> req.state, iss |-> EmptyUrl]

MeValues ==
    {ServerBase, Url("https", "blog.example", <<>>), [ServerBase EXCEPT !.query = "q"],
     [ServerBase EXCEPT !.fragment = "f"], Url("http", "blog.example", <<"/">>),
     Url("https", "me.example", <<>>), Url("", "me.example", <<>>), StrangerMe, EmptyUrl,
     [ServerBase EXCEPT !.port = "0"], [ServerBase EXCEPT !.port = "99999"]}

MeReqs ==
    {r \in AuthorizeParams({"GET"}, {Owner}, MeValues, {GoodPkce},
                           {<<ClientA, CallbackA>>}, {""}, {""}, {FALSE})
           \cup AuthorizeParams({"POST"}, {Owner, ""}, MeValues, {GoodPkce},
                                {<<ClientA, CallbackA>>}, {""}, {"approve"}, {TRUE}) :
        r.response_type = "code"}

NextMe ==
    \/ \E req \in MeReqs : authorize_get(req)
    \/ \E req \in MeReqs : authorize_post(req)
    \/ \E c \in RawCodes : token_begin("p1", ExchangeReq(c, ClientA, CallbackA, "v1"))
    \/ token_select("p1")
    \/ token_check("p1")
    \/ token_consume("p1")
    \/ token_mint("p1")
    \/ token_commit("p1")
    \/ token_return("p1")

SpecMe == Init /\ [][NextMe]_vars

\* normalize(me) does not exist or is not one of the allowed me URLs.
MeRejected(req) ==
    \/ normalize_url(req.me) = {}
    \/ Val(normalize_url(req.me)) \notin allowed_me_urls

\* Every stored code and token carries an allowed me, and a code was issued only
\* for a request whose normalized me is allowed and is the me stored with the code.
MeStoredNormalized ==
    /\ \A h \in DOMAIN codes : codes[h].me \in allowed_me_urls
    /\ \A t \in DOMAIN tokens : tokens[t].me \in allowed_me_urls
    /\ \A m \in minted : m[2] \in DOMAIN tokens => tokens[m[2]].me = codes[m[1]].me
    /\ (ar.req.method \in {"GET", "POST"} /\ IssuedCode) =>
          /\ ~MeRejected(ar.req)
          /\ codes[hash_token(ar.resp.code)].me = Val(normalize_url(ar.req.me))

\* C20 as stated: every request whose normalized me is missing or not allowed is
\* answered with the local 400.
C20_Original ==
    /\ MeStoredNormalized
    /\ (ar.req.method \in {"GET", "POST"} /\ MeRejected(ar.req)) =>
          ar.resp = render_error(400)

\* C20: a code is issued only if normalize(me) exists and is one of the allowed me
\* URLs; a GET, and a POST of a logged-in browser, with any other me is answered with
\* a local error page and nothing else: the 400, or the 500 of the unhandled
\* ValueError when the port of me cannot be read (a POST without a session is sent
\* to the login page before me is read); the me stored in the code, and later in
\* its token, is the normalized URL.
C20_MeAllowed ==
    /\ MeStoredNormalized
    /\ (ar.req.method \in {"GET", "POST"} /\ MeRejected(ar.req) /\ Validates(ar.req)) =>
          ar.resp = render_error(IF ar.req.me.port = "99999" THEN 500 ELSE 400)

\* A code was issued for a me that was not written in its normalized form, and the
\* token minted from that code carries the normalized me.
C20_Witness ==
    /\ ar.req.method \in {"GET", "POST"}
    /\ IssuedCode
    /\ ar.req.me # Val(normalize_url(ar.req.me))
    /\ \E m \in minted :
          /\ m[1] = hash_token(ar.resp.code)
          /\ m[2] \in DOMAIN tokens
          /\ tokens[m[2]].me = Val(normalize_url(ar.req.me))

(***************************************************************************)
(* SpecGrant: the parameters of the token endpoint.  The owner approves    *)
(* client A; requests present code c1 with, without and with another       *)
(* grant_type, each with one of code, client_id, redirect_uri and          *)
(* code_verifier left out or with none left out, as POST and as GET.       *)
(***************************************************************************)
GrantTypes == {"authorization_code", "", "password"}

GrantReqs ==
    LET full == ExchangeReq("c1", ClientA, CallbackA, "v1")
        partial == {full, [full EXCEPT !.code = ""], [full EXCEPT !.client_id = EmptyUrl],
                    [full EXCEPT !.redirect_uri = EmptyUrl],
                    [full EXCEPT !.code_verifier = ""]}
    IN  {[r EXCEPT !.grant_type = g, !.method = m] :
            r \in partial, g \in GrantTypes, m \in {"POST", "GET"}}

NextGrant ==
    \/ \E req \in FlowAuthReqs : authorize_post(req)
    \/ \E req \in GrantReqs : token_begin("p1", req)
    \/ token_select("p1")
    \/ token_check("p1")
    \/ token_consume("p1")
    \/ token_mint("p1")
    \/ token_commit("p1")
    \/ token_return("p1")

SpecGrant == Init /\ [][NextGrant]_vars

\* The step receives a POST that is not a revoke.
GrantStep == ex["p1"].pc = "idle" /\ ex'["p1"].pc # "idle" /\ ex'["p1"].req.method = "POST"

\* The step answered with the error and wrote nothing.
Refused(error) ==
    /\ ex'["p1"].pc = "done"
    /\ ex'["p1"].resp = JsonError(error)
    /\ codes' = codes
    /\ tokens' = tokens
    /\ minted' = minted

\* C21 as stated: every request whose grant type is not authorization_code is refused
\* with unsupported_grant_type.
C21_Original ==
    [][GrantStep =>
          IF ex'["p1"].req.grant_type # "authorization_code"
          THEN Refused("unsupported_grant_type")
          ELSE IF missing_parameter(ex'["p1"].req) THEN Refused("invalid_request")
          ELSE ex'["p1"].pc = "select"]_vars

\* C21: a POST to the token endpoint that is not a revoke and names a grant type
\* other than authorization_code is refused with unsupported_grant_type; a request
\* with grant type authorization_code, or with none, that lacks one of code,
\* client_id, redirect_uri and code_verifier is refused with invalid_request; both
\* leave codes and tokens as they were; every other request goes on to the exchange.
C21_GrantTypeAndParameters ==
    [][GrantStep =>
          IF ex'["p1"].req.grant_type \notin {"authorization_code", ""}
          THEN Refused("unsupported_grant_type")
          ELSE IF \/ ex'["p1"].req.code = ""
                  \/ ex'["p1"].req.client_id = EmptyUrl
                  \/ ex'["p1"].req.redirect_uri = EmptyUrl
                  \/ ex'["p1"].req.code_verifier = ""
          THEN Refused("invalid_request")
          ELSE ex'["p1"].pc = "select"]_vars

\* A request without code_verifier was refused with invalid_request while the code
\* it presents is stored and unconsumed, and no token exists.
C21_Witness ==
    /\ ex["p1"].pc = "done"
    /\ ex["p1"].req.method = "POST"
    /\ ex["p1"].req.code_verifier = ""
    /\ ex["p1"].req.code = "c1"
    /\ ex["p1"].resp = JsonError("invalid_request")
    /\ hash_token("c1") \in DOMAIN codes
    /\ IsNull(codes[hash_token("c1")].used_at)
    /\ tokens = EmptyMap

(***************************************************************************)
(* SpecCache: the client registry over time.  The registry starts empty or *)
(* with a row entered by hand (name and redirect URIs, never fetched, as   *)
(* the test fixtures create it).  client.example changes what it serves:   *)
(* its document, a Link header without a name, an empty page, an oversized *)
(* body, a network error, a page whose links are relative, repeated, not   *)
(* http or carry a fragment; intra.example resolves to a private address.  *)
(* The owner asks for, and approves, requests of both clients with a       *)
(* callback below the client_id and with another one.  The clock jumps to  *)
(* the instants at which a cached row is exactly 12 hours old, and one     *)
(* minute older.                                                           *)
(***************************************************************************)
ClientIntra == Url("https", "intra.example", <<>>)

CallbackIntra == Url("https", "intra.example", <<"/", "a">>)

HandMadeRow == [NewClient EXCEPT !.name = "Client App", !.redirect_uris = {CallbackSlash}]

CacheAnswers ==
    {[Doc({}, {CallbackA}, "json", "App", 0) EXCEPT !.logo = "logo.png"],
     Doc({CallbackSlash}, {}, "", "", 0), Doc({}, {}, "html", "", 0),
     Doc({}, {CallbackA}, "json", "App", MAX_METADATA_BYTES + 1), NetError,
     Doc({Url("", "", <<"/", "a">>)},
         {[CallbackSlash EXCEPT !.fragment = "f"], Url("ftp", "client.example", <<"/", "a">>),
          EmptyUrl, CallbackA}, "html", "", 0)}

CacheReqs ==
    {r \in AuthorizeParams({"GET"}, {Owner}, {ServerBase}, {GoodPkce},
                           {<<ClientA, CallbackA>>, <<ClientA, CallbackSlash>>,
                            <<ClientIntra, CallbackIntra>>}, {""}, {""}, {FALSE})
           \cup AuthorizeParams({"POST"}, {Owner}, {ServerBase}, {GoodPkce},
                                {<<ClientIntra, CallbackIntra>>}, {""}, {"approve"},
                                {FALSE}) :
        r.response_type = "code"}

CacheHorizon == CLIENT_CACHE_TTL + 1 + MaxClock

InitCache ==
    /\ now = 0
    /\ clients \in {EmptyMap, [c \in {ClientA} |-> HandMadeRow]}
    /\ codes = EmptyMap
    /\ tokens = EmptyMap
    /\ consents = EmptyMap
    /\ minted = {}
    /\ ex = [p \in Procs |-> Idle]
    /\ lock = EmptyMap
    /\ ar = [req |-> NoAuthReq, resp |-> NoAuthResp]
    /\ ir = [req |-> NoIntrospectReq, resp |-> Inactive(0)]
    /\ rs = NoRs
    /\ rw = NoRw
    /\ nz = NoNz
    /\ disc = NoDisc
    /\ ra = NoRa
    /\ net = DefaultNet

serve(answer) ==
    /\ net["client.example"] # answer
    /\ net' = [net EXCEPT !["client.example"] = answer]
    /\ UNCHANGED <<now, clients, codes, tokens, consents, minted, ex, lock, ar, ir, rs, nz, rw, ra, disc>>

tick_cache ==
    LET stale == {Val(clients[c].last_fetched_at) + CLIENT_CACHE_TTL :
                    c \in {k \in DOMAIN clients : ~IsNull(clients[k].last_fetched_at)}}
    IN  /\ \E t \in stale \cup {s + 1 : s \in stale} :
              t > now /\ t <= CacheHorizon /\ now' = t
        /\ UNCHANGED <<clients, codes, tokens, consents, minted, ex, lock, ar, ir, rs, nz, rw, ra, net, disc>>

NextCache ==
    \/ \E req \in CacheReqs : authorize_get(req)
    \/ \E req \in CacheReqs : authorize_post(req)
    \/ \E answer \in CacheAnswers : serve(answer)
    \/ tick_cache

SpecCache == InitCache /\ [][NextCache]_vars

\* The step resolved the client of its request (a GET asking for a code, or a POST
\* with a session).
ResolveStep ==
    /\ now' = now
    /\ net' = net
    /\ \/ ar'.req.method = "GET" /\ ar'.req.response_type = "code"
       \/ ar'.req.method = "POST" /\ ar'.req.user # ""
    /\ ar'.req.client_id \in DOMAIN clients'

\* Discovery ran in the step and failed, and the client has no redirect URIs.
FailedWithoutCache ==
    /\ clients'[ar'.req.client_id].last_fetched_at = Some(now)
    /\ clients'[ar'.req.client_id].fetch_error # ""
    /\ clients'[ar'.req.client_id].redirect_uris = {}
    /\ disc'.client_id = ar'.req.client_id
    /\ ~disc'.ok

\* C22: a request whose discovery fails for a client without cached redirect URIs is
\* answered with the local 400 and issues no code.
C22_FailedDiscoveryIsInvalidClient ==
    [][(ResolveStep /\ FailedWithoutCache) =>
          (ar'.resp = render_error(400) /\ codes' = codes)]_vars

(***************************************************************************)
(* SpecSecrets: where the raw secrets go.  The owner approves client A and *)
(* has the approval remembered, so that GET requests are approved without  *)
(* the prompt; codes are exchanged with the right and a wrong verifier;    *)
(* the tokens are introspected and presented to userinfo.                  *)
(***************************************************************************)
SecretAuthReqs ==
    {r \in AuthorizeParams({"GET", "POST"}, {Owner}, {ServerBase}, {GoodPkce},
                           {<<ClientA, CallbackA>>}, {""}, {"approve", "deny"}, {TRUE}) :
        r.response_type = "code"}

NextSecrets ==
    \/ \E req \in SecretAuthReqs : authorize_get(req)
    \/ \E req \in SecretAuthReqs : authorize_post(req)
    \/ \E c \in RawCodes, v \in {"v1", "v2"} :
          token_begin("p1", ExchangeReq(c, ClientA, CallbackA, v))
    \/ token_select("p1")
    \/ token_check("p1")
    \/ token_consume("p1")
    \/ token_mint("p1")
    \/ token_commit("p1")
    \/ token_return("p1")
    \/ \E t \in {"t1", "t2"} : introspect(IntrospectReq("POST", t, "", ""))
    \/ \E t \in {"t1", "t2"} : userinfo([auth |-> {t}])

SpecSecrets == Init /\ [][NextSecrets]_vars

Sha256(value) == <<"sha256", value>>

\* The stores are keyed by hashes, and no column of a row holds a raw secret.
OnlyHashesStored ==
    /\ DOMAIN codes \subseteq {Sha256(c) : c \in RawCodes}
    /\ DOMAIN tokens \subseteq {Sha256(t) : t \in RawTokens}
    /\ \A h \in DOMAIN codes :
          /\ DOMAIN codes[h] = {"code_challenge", "code_challenge_method", "client_id",
                                "redirect_uri", "me", "scope", "user", "created_at",
                                "expires_at", "used_at"}
          /\ codes[h].user \notin RawCodes \cup RawTokens
          /\ \A i \in DOMAIN codes[h].scope : codes[h].scope[i] \notin RawCodes \cup RawTokens
    /\ \A h \in DOMAIN tokens :
          /\ DOMAIN tokens[h] = {"client_id", "me", "scope", "user", "created_at",
                                 "expires_at", "revoked_at"}
          /\ tokens[h].user \notin RawCodes \cup RawTokens
          /\ \A i \in DOMAIN tokens[h].scope : tokens[h].scope[i] \notin RawCodes \cup RawTokens

\* A step that stores a code stores the hash of one new value and sends that value
\* in the redirect to redirect_uri, with the request's state and the issuer; a step
\* that answers an authorization request without storing a code sends no code.
CodeSentOnce ==
    /\ DOMAIN codes' # DOMAIN codes =>
          \E c \in RawCodes :
              /\ Sha256(c) \notin DOMAIN codes
              /\ DOMAIN codes' = DOMAIN codes \cup {Sha256(c)}
              /\ ar'.resp.kind = "redirect"
              /\ ar'.resp.location = ar'.req.redirect_uri
              /\ ar'.resp.code = c
              /\ ar'.resp.state = ar'.req.state
              /\ ar'.resp.iss = issuer
    /\ (DOMAIN codes' = DOMAIN codes /\ ar' # ar) => ar'.resp.code = ""

\* A step that stores a token stores the hash of one new value and sends that value
\* in the token response; a step that answers a token request without storing a
\* token sends no token.
TokenSentOnce ==
    /\ DOMAIN tokens' # DOMAIN tokens =>
          \E t \in RawTokens :
              /\ Sha256(t) \notin DOMAIN tokens
              /\ DOMAIN tokens' = DOMAIN tokens \cup {Sha256(t)}
              /\ ex'["p1"].pc = "done"
              /\ ex'["p1"].resp.status = 200
              /\ ex'["p1"].resp.access_token = t
    /\ (DOMAIN tokens' = DOMAIN tokens /\ ex'["p1"].resp # ex["p1"].resp) =>
          ex'["p1"].resp.access_token = ""

\* C23: the code and token stores hold only the SHA-256 hash of each secret; the raw
\* code is sent exactly once, in the redirect that carries code, state and iss and
\* that stored its hash, and the raw token exactly once, in the token response that
\* stored its hash.
C23_SecretsNeverPersisted ==
    [][OnlyHashesStored' /\ CodeSentOnce /\ TokenSentOnce]_vars

\* Both codes were sent, the second by a GET approved without the prompt, and a
\* token was sent for the first; the stores hold their hashes.
C23_Witness ==
    /\ ar.req.method = "GET"
    /\ ar.resp.code = "c2"
    /\ ar.resp.iss = issuer
    /\ DOMAIN codes = {Sha256("c1"), Sha256("c2")}
    /\ ex["p1"].pc = "done"
    /\ ex["p1"].resp.access_token = "t1"
    /\ DOMAIN tokens = {Sha256("t1")}

\* The row of the request's client before the step (get_or_create: an empty row when
\* there was none).
RowBefore ==
    IF ar'.req.client_id \in DOMAIN clients THEN clients[ar'.req.client_id]
    ELSE [name |-> "", logo_url |-> "", redirect_uris |-> {}, last_fetched_at |-> {},
          fetch_error |-> ""]

NoDiscovery == disc'.client_id = EmptyUrl /\ disc'.sent = <<>>

OneDiscovery == disc'.client_id = ar'.req.client_id

\* C24 as stated: the cached row is returned without discovery iff it has redirect
\* URIs and a name and was fetched less than 12 hours ago; otherwise discovery runs.
C24_Original ==
    [][ResolveStep =>
          IF /\ RowBefore.redirect_uris # {}
             /\ RowBefore.name # ""
             /\ RowBefore.last_fetched_at # {}
             /\ now - Val(RowBefore.last_fetched_at) < CLIENT_CACHE_TTL
          THEN NoDiscovery
          ELSE OneDiscovery]_vars

\* C24: the cached row is returned without discovery iff it has redirect URIs and
\* either its last fetch attempt is at most 12 hours old, or it was never fetched and
\* has a name (it is then stamped as fetched now); in every other case (no redirect
\* URIs; never fetched and no name; last attempt more than 12 hours old) one
\* discovery runs.
C24_CacheOrDiscover ==
    [][ResolveStep =>
          IF /\ RowBefore.redirect_uris # {}
             /\ \/ /\ RowBefore.last_fetched_at # {}
                   /\ now - Val(RowBefore.last_fetched_at) <= CLIENT_CACHE_TTL
                \/ /\ RowBefore.last_fetched_at = {}
                   /\ RowBefore.name # ""
          THEN /\ NoDiscovery
               /\ clients'[ar'.req.client_id] =
                     [RowBefore EXCEPT !.last_fetched_at = IF @ = {} THEN {now} ELSE @]
          ELSE OneDiscovery]_vars

\* A row cached at minute 0 was refreshed by a successful discovery one minute after
\* it had become 12 hours old.
C24_Witness ==
    /\ now = CLIENT_CACHE_TTL + 1
    /\ ar.req.client_id = ClientA
    /\ disc.client_id = ClientA
    /\ disc.ok
    /\ ClientA \in DOMAIN clients
    /\ clients[ClientA].last_fetched_at = {now}

UnderClientId(client_id, redirect_uri) ==
    /\ AbsoluteHttpNoFragment(redirect_uri)
    /\ redirect_uri.scheme = client_id.scheme
    /\ redirect_uri.userinfo = client_id.userinfo
    /\ redirect_uri.host = client_id.host
    /\ redirect_uri.port = client_id.port
    /\ PathRule(client_id, redirect_uri)

\* C30: after a successful discovery the stored redirect URIs are exactly the
\* discovered set, whatever the row held before: absolute http/https URLs without
\* fragment, none twice; when the set is empty the request is validated by the
\* scheme/host/path rule; the stored name and logo are the discovered ones, or the
\* previous ones when the discovered value is empty; fetch_error is cleared.
C30_DiscoveryReplacesList ==
    [][(ResolveStep /\ OneDiscovery /\ disc'.ok) =>
          LET metadata == Val(disc'.metadata)
              row == clients'[ar'.req.client_id]
          IN  /\ row.redirect_uris = metadata.redirect_uris
              /\ \A u \in row.redirect_uris : AbsoluteHttpNoFragment(u)
              /\ row.name = IF metadata.client_name # "" THEN metadata.client_name
                            ELSE RowBefore.name
              /\ row.logo_url = IF metadata.logo_url # "" THEN metadata.logo_url
                                ELSE RowBefore.logo_url
              /\ row.fetch_error = ""
              /\ row.redirect_uris = {} =>
                    IF UnderClientId(ar'.req.client_id, ar'.req.redirect_uri)
                    THEN ar'.resp = render_consent
                    ELSE ar'.resp = render_error(400)]_vars

\* After the client's document had been cached with name and logo, a later discovery
\* found an empty page: the list is empty, name and logo are kept, and the request
\* was validated by the scheme/host/path rule.
C30_Witness ==
    /\ ClientA \in DOMAIN clients
    /\ clients[ClientA].redirect_uris = {}
    /\ clients[ClientA].name = "App"
    /\ clients[ClientA].logo_url = "logo.png"
    /\ clients[ClientA].fetch_error = ""
    /\ disc.client_id = ClientA
    /\ disc.ok
    /\ ar.req.redirect_uri = CallbackSlash
    /\ ar.resp = render_consent

(***************************************************************************)
(* SpecRefresh: two request processes resolve client A at the same time,   *)
(* statement by statement, while client.example changes what it serves     *)
(* and the clock passes the instants at which the cached row goes stale.   *)
(***************************************************************************)
RefreshAnswers ==
    {[Doc({}, {CallbackA}, "json", "App", 0) EXCEPT !.logo = "logo.png"],
     Doc({CallbackSlash}, {}, "", "", 0), NetError}

NextRefresh ==
    \/ \E w \in Workers : resolve_read(w, ClientA)
    \/ \E w \in Workers : resolve_stamp(w)
    \/ \E w \in Workers : resolve_fetch(w)
    \/ \E w \in Workers : resolve_save(w)
    \/ \E w \in Workers : resolve_return(w)
    \/ \E answer \in RefreshAnswers : serve(answer)
    \/ tick_cache

SpecRefresh == InitCache /\ [][NextRefresh]_vars

\* C26: under every interleaving of two refreshes of the same client, the metadata
\* stored by a successful refresh (redirect URIs, name, logo) is not changed by a
\* write that records a failed fetch.
C26_RefreshRaceBenign ==
    [][\A c \in DOMAIN clients :
          (/\ clients[c].fetch_error = ""
           /\ clients[c].last_fetched_at # {}
           /\ clients'[c].fetch_error # "") =>
              /\ clients'[c].redirect_uris = clients[c].redirect_uris
              /\ clients'[c].name = clients[c].name
              /\ clients'[c].logo_url = clients[c].logo_url]_vars

(***************************************************************************)
(* SpecNormalize: _normalize_url on every URL made of a scheme (none,      *)
(* http, https in either case, ftp), credentials or none, a public host or *)
(* localhost, no port, port 0, a default, another and an impossible port,  *)
(* four paths, no query, a query and a query ending in "/", a fragment or  *)
(* none, with settings.DEBUG on and off.                                   *)
(***************************************************************************)
NormalizeInputs ==
    [scheme : {"", "http", "https", "HTTPS", "ftp"}, userinfo : {"", "u"},
     host : {"me.example", "localhost"}, port : {"", "0", "443", "8443", "99999"},
     path : {<<>>, <<"/">>, <<"/", "a">>, <<"/", "a", "/">>}, query : {"", "q", "q/"},
     fragment : {"", "f"}]

InitNormalize ==
    /\ now = 0
    /\ clients = EmptyMap
    /\ codes = EmptyMap
    /\ tokens = EmptyMap
    /\ consents = EmptyMap
    /\ minted = {}
    /\ ex = [p \in Procs |-> Idle]
    /\ lock = EmptyMap
    /\ ar = [req |-> NoAuthReq, resp |-> NoAuthResp]
    /\ ir = [req |-> NoIntrospectReq, resp |-> Inactive(0)]
    /\ rs = NoRs
    /\ rw = NoRw
    /\ disc = NoDisc
    /\ ra = NoRa
    /\ net = DefaultNet
    /\ \E value \in NormalizeInputs, debug \in BOOLEAN :
          nz = [NoNz EXCEPT !.value = value, !.debug = debug]

NextNormalize == normalize

SpecNormalize == InitNormalize /\ [][NextNormalize]_vars

\* The URL names a scheme other than http and https, or credentials, or a fragment,
\* or a port that is not the default of its scheme.
MustBeRefused(value) ==
    \/ value.scheme # "" /\ Lower(value.scheme) \notin {"http", "https"}
    \/ value.userinfo # ""
    \/ value.fragment # ""
    \/ /\ value.port # ""
       /\ ~(Lower(value.scheme) \in {"", "https"} /\ value.port = "443")
       /\ ~(Lower(value.scheme) = "http" /\ value.port = "80")

\* The URL without its query, "/" standing in for an empty path.
WithoutQuery(value) ==
    [value EXCEPT !.scheme = IF @ = "" THEN "https" ELSE Lower(@), !.query = "",
                  !.path = IF @ = <<>> THEN <<"/">> ELSE @]

\* C27: normalize returns no result for a URL with a scheme other than http/https,
\* with credentials, with a fragment or with a non-default port (unless the host is
\* localhost and the server runs in debug mode); an accepted URL is returned without
\* its query and with "/" for an empty path, and normalizing the result returns it
\* unchanged.
C27_NormalizeContract ==
    nz.done =>
        /\ (/\ MustBeRefused(nz.value)
            /\ ~(nz.value.port # "" /\ nz.debug /\ Lower(nz.value.host) = "localhost"
                 /\ ~MustBeRefused([nz.value EXCEPT !.port = ""])))
              => nz.result.kind = "none"
        /\ nz.result.kind = "url" =>
              /\ nz.result.url = WithoutQuery(nz.value)
              /\ nz.again = nz.result


(***************************************************************************)
(* SpecSize: the cap on the discovery response.  client.example answers    *)
(* with a JSON document or an HTML page whose body is empty, one byte      *)
(* short of the cap, exactly at the cap, one and two bytes over it, and    *)
(* three times the cap, or does not answer; the owner asks for a code      *)
(* while the row is absent, hand made, fresh and stale.                    *)
(***************************************************************************)
BodySizes ==
    {0, MAX_METADATA_BYTES - 1, MAX_METADATA_BYTES, MAX_METADATA_BYTES + 1,
     MAX_METADATA_BYTES + 2, 3 * MAX_METADATA_BYTES}

SizeAnswers ==
    {Doc({}, {CallbackA}, "json", "App", n) : n \in BodySizes}
        \cup {Doc({CallbackSlash}, {}, "html", "", n) : n \in BodySizes} \cup {NetError}

SizeReqs ==
    {r \in AuthorizeParams({"GET"}, {Owner}, {ServerBase}, {GoodPkce},
                           {<<ClientA, CallbackA>>, <<ClientA, CallbackSlash>>},
                           {""}, {""}, {FALSE}) :
        r.response_type = "code"}

NextSize ==
    \/ \E req \in SizeReqs : authorize_get(req)
    \/ \E answer \in SizeAnswers : serve(answer)
    \/ tick_cache

SpecSize == InitCache /\ [][NextSize]_vars

\* The step ran discovery for the client of its request and the client's host
\* answered with a document.
DiscoveryGotDocument ==
    /\ now' = now
    /\ net' = net
    /\ disc'.client_id = ar'.req.client_id
    /\ disc'.client_id # EmptyUrl
    /\ net[disc'.client_id.host].kind = "doc"

\* C28: discovery takes at most 1,000,001 bytes of the response; a body of more
\* than 1,000,000 bytes makes discovery fail with the error "Client metadata
\* response too large" and yields no metadata (the row keeps what it had), a body
\* of 1,000,000 bytes or fewer is parsed and its metadata stored.
C28_SizeCap ==
    [][DiscoveryGotDocument =>
        LET client_id == disc'.client_id
            answer == net[client_id.host]
            before == IF client_id \in DOMAIN clients THEN clients[client_id] ELSE NewClient
            after == clients'[client_id]
        IN  /\ disc'.read <= MAX_METADATA_BYTES + 1
            /\ disc'.read <= answer.size
            /\ answer.size > MAX_METADATA_BYTES =>
                  /\ ~disc'.ok
                  /\ disc'.metadata = {}
                  /\ after.fetch_error = "Client metadata response too large"
                  /\ after.redirect_uris = before.redirect_uris
                  /\ after.name = before.name
            /\ answer.size <= MAX_METADATA_BYTES =>
                  /\ disc'.ok
                  /\ disc'.read = answer.size
                  /\ disc'.metadata = {parse_metadata(client_id, answer)}
                  /\ after.fetch_error = ""
                  /\ after.redirect_uris = parse_metadata(client_id, answer).redirect_uris]_vars

\* A body of exactly 1,000,000 bytes was read whole and parsed, and its redirect
\* URI is in the client's row.
C28_Witness ==
    /\ disc.ok
    /\ disc.read = MAX_METADATA_BYTES
    /\ net["client.example"].kind = "doc"
    /\ net["client.example"].size = MAX_METADATA_BYTES
    /\ ClientA \in DOMAIN clients
    /\ clients[ClientA].redirect_uris # {}
    /\ clients[ClientA].fetch_error = ""


(***************************************************************************)
(* SpecRetry: failed exchanges and the exchange that follows them.  The    *)
(* owner approves client A; two workers serve exchanges of code c1 with    *)
(* the right parameters, with another verifier, client_id or redirect_uri, *)
(* without a verifier and without a code, and of a code never issued, as   *)
(* POST and once as GET, while the clock runs to the code's expiry.        *)
(***************************************************************************)
RetryReqs ==
    LET full == ExchangeReq("c1", ClientA, CallbackA, "v1")
    IN  {full, [full EXCEPT !.code_verifier = "v2"], [full EXCEPT !.client_id = ClientB],
         [full EXCEPT !.redirect_uri = CallbackSlash], [full EXCEPT !.code_verifier = ""],
         [full EXCEPT !.code = ""], [full EXCEPT !.code = "c0"],
         [full EXCEPT !.method = "GET"]}

NextRetry ==
    \/ \E req \in FlowAuthReqs : codes = EmptyMap /\ authorize_post(req)
    \/ \E p \in Procs, req \in RetryReqs : token_begin(p, req)
    \/ \E p \in Procs : token_select(p)
    \/ \E p \in Procs : token_check(p)
    \/ \E p \in Procs : token_consume(p)
    \/ \E p \in Procs : token_mint(p)
    \/ \E p \in Procs : token_commit(p)
    \/ \E p \in Procs : token_return(p)
    \/ tick(FlowHorizon)

SpecRetry == Init /\ [][NextRetry]_vars

\* Worker p has answered an exchange with an error.
ExchangeFailed(p) == ex[p].pc = "done" /\ ex[p].resp.status = 400

\* The request carries the parameters the stored, unexpired code was issued with.
CorrectAndInTime(req) ==
    /\ req.method = "POST"
    /\ req.code # ""
    /\ Sha256(req.code) \in DOMAIN codes
    /\ LET row == codes[Sha256(req.code)]
       IN  /\ req.client_id = row.client_id
           /\ req.redirect_uri = row.redirect_uri
           /\ req.code_verifier # ""
           /\ base64url_sha256(req.code_verifier) = row.code_challenge
           /\ now < row.expires_at

\* C29: an exchange that fails changes nothing: the step that answers with the error
\* leaves the code table (the consumption timestamps in it), the token table and the
\* record of mintings as they were, and the failed worker never set a consumption
\* timestamp or drew a token; so an exchange with the correct parameters before
\* expiry fails only if the code has been consumed by a successful exchange, however
\* many exchanges failed before it.
C29_FailedExchangeChangesNothing ==
    /\ [](\A p \in Procs : ExchangeFailed(p) =>
            (IsNull(ex[p].used_at) /\ ex[p].access_token = ""))
    /\ [][\A p \in Procs : (ex[p].pc # "done" /\ ExchangeFailed(p)') =>
            /\ codes' = codes
            /\ tokens' = tokens
            /\ minted' = minted
            /\ CorrectAndInTime(ex'[p].req) =>
                  /\ ~IsNull(codes[Sha256(ex'[p].req.code)].used_at)
                  /\ \E m \in minted : m[1] = Sha256(ex'[p].req.code)]_vars

\* An exchange of c1 with the wrong verifier found the code unconsumed and failed,
\* and the exchange with the right verifier that followed it got a token.
C29_Witness ==
    /\ ExchangeFailed("p1")
    /\ ex["p1"].sel = "found"
    /\ ex["p1"].req.code = "c1"
    /\ ex["p1"].req.code_verifier = "v2"
    /\ ~ex["p1"].late
    /\ ex["p2"].pc = "done"
    /\ ex["p2"].resp.status = 200
    /\ ex["p2"].req.code = "c1"
    /\ ~IsNull(codes[Sha256("c1")].used_at)
    /\ \E m \in minted : m[1] = Sha256("c1")

====
